---- MODULE Spec2Model ----
(***************************************************************************)
(* Batch update orchestration of conan-center-bot:                         *)
(*   ccb/update/auto.py    auto_update_all_recipes, auto_update_one_recipe  *)
(*   ccb/update/common.py  update_one_recipe, test_recipe, add_version      *)
(*   ccb/git.py            RecipeInWorktree, branch helpers                 *)
(*   ccb/subprocess.py     call, check_call, check_output                   *)
(*   ccb/upstream_project.py, ccb/cci.py, ccb/version.py, ccb/utils.py      *)
(*                                                                         *)
(* Scheduling is the cooperative asyncio event loop: a task runs from the  *)
(* completion of the I/O it awaits (subprocess exit, HTTP answer, lock     *)
(* hand-over) up to the start of the next I/O.  One action of the model is *)
(* one such step; pc[r] / dpc[r] name the I/O a task is suspended on.      *)
(***************************************************************************)
EXTENDS Integers, Sequences, FiniteSets, TLC

\* ---------------------------------------------------------------- bounds
NumRecipes == 2
\* pages of the pull-request listing that hold at least one pull request
MaxPrPages == 1
\* longest enumerated version string (longer ones are listed in VersionSamples)
MaxVersionLen == 3
\* most tags in the output of "git for-each-ref"
MaxTags == 2
MaxTableLen == 3
MaxDigestCalls == 3
MaxLines == 3
UpdateBound == 1
MaxCallers == 3
\* value of CCB_CLONE_CONCURRENCY in the runs that are short of clone slots
CloneBound == 1

Recipes == 1..NumRecipes
\* no task (holder of a free lock)
NoTask == 0

\* ------------------------------------------------------ program constants
\* int(os.environ.get("CCB_UPDATE_CONCURRENCY", "16"))
CCB_UPDATE_CONCURRENCY == 16
\* int(os.environ.get("CCB_CLONE_CONCURRENCY", "3"))
CCB_CLONE_CONCURRENCY == 3

\* Python's None where the value is a string
None == "None"
\* Optional values that are not strings: <<>> is None, <<x>> is the value x
Nothing == <<>>
Some(x) == <<x>>

\* ------------------------------------------------------------ version.py
\* A Version value: original string, canonical (fixed) string, numeric tuple
\* (Nothing when _to_numeric gives None), date classification.
MkVersion(original, fixed, to_numeric, is_date) ==
  [original |-> original, fixed |-> fixed, to_numeric |-> to_numeric, is_date |-> is_date]

\* A str of the program is a sequence of one-character strings; Str(s) is the
\* string it spells
RECURSIVE Str(_)
Str(s) == IF s = <<>> THEN "" ELSE Head(s) \o Str(Tail(s))

DigitChars == <<"0", "1", "2", "3", "4", "5", "6", "7", "8", "9">>
Digits == {DigitChars[i] : i \in 1..10}
UpperCase == {"A", "B", "C", "D", "E", "F", "G", "H", "I", "J", "K", "L", "M",
              "N", "O", "P", "Q", "R", "S", "T", "U", "V", "W", "X", "Y", "Z"}

\* the class [\.-_] of VERSION_DATE_RE: "\." to "_" is a character range, from
\* "." (0x2E) to "_" (0x5F); "-" (0x2D) is not in it
DateSeparators ==
  {".", "/", ":", ";", "<", "=", ">", "?", "@", "[", "\\", "]", "^", "_"}
    \cup Digits \cup UpperCase

\* [0-9]+ read greedily from the digit at position i: position of its last digit
RECURSIVE DigitsEnd(_, _)
DigitsEnd(s, i) == IF i + 1 <= Len(s) /\ s[i + 1] \in Digits THEN DigitsEnd(s, i + 1) ELSE i

\* a group (sep[0-9]+) starts after position j
GroupFollows(s, j, sep) == j + 2 <= Len(s) /\ s[j + 1] = sep /\ s[j + 2] \in Digits

\* (sep[0-9]+)* read greedily after position j: position of the last character
RECURSIVE GroupsEnd(_, _, _)
GroupsEnd(s, j, sep) ==
  IF GroupFollows(s, j, sep) THEN GroupsEnd(s, DigitsEnd(s, j + 2), sep) ELSE j

\* re.compile(r"[0-9]+(sep[0-9]+)+").search(s): group(0) of the leftmost
\* match, Nothing when there is none
SearchGroups(s, sep) ==
  LET starts == {i \in 1..Len(s) : s[i] \in Digits /\ GroupFollows(s, DigitsEnd(s, i), sep)}
  IN  IF starts = {} THEN Nothing
      ELSE LET i == CHOOSE k \in starts : \A m \in starts : k <= m
           IN  Some(SubSeq(s, i, GroupsEnd(s, DigitsEnd(s, i), sep)))

VERSION_RE(s) == SearchGroups(s, ".")
VERSION_DASH_RE(s) == SearchGroups(s, "-")
VERSION_UNDERSCORE_RE(s) == SearchGroups(s, "_")

\* n digits from position i
AllDigits(s, i, n) == i + n - 1 <= Len(s) /\ \A k \in i..(i + n - 1) : s[k] \in Digits

\* VERSION_DATE_RE matches at position i with separators of u and w characters
DateMatchAt(s, i, u, w) ==
  /\ AllDigits(s, i, 4)
  /\ (u = 1 => i + 4 <= Len(s) /\ s[i + 4] \in DateSeparators)
  /\ AllDigits(s, i + 4 + u, 2)
  /\ (w = 1 => i + 6 + u <= Len(s) /\ s[i + 6 + u] \in DateSeparators)
  /\ AllDigits(s, i + 6 + u + w, 2)

\* the order in which the two greedy "?" are tried
DateChoices == << <<1, 1>>, <<1, 0>>, <<0, 1>>, <<0, 0>> >>

\* VERSION_DATE_RE.search(s): groups() of the leftmost match, Nothing when
\* there is none
VERSION_DATE_RE(s) ==
  LET hit(i, c) == DateMatchAt(s, i, DateChoices[c][1], DateChoices[c][2])
      starts == {i \in 1..Len(s) : \E c \in 1..4 : hit(i, c)}
  IN  IF starts = {} THEN Nothing
      ELSE LET i == CHOOSE k \in starts : \A m \in starts : k <= m
               c == CHOOSE k \in 1..4 : hit(i, k) /\ \A m \in 1..(k - 1) : ~hit(i, m)
               u == DateChoices[c][1]
               w == DateChoices[c][2]
           IN  Some(<<SubSeq(s, i, i + 3), SubSeq(s, i + 4 + u, i + 5 + u),
                      SubSeq(s, i + 6 + u + w, i + 7 + u + w)>>)

\* VERSION_COUNTER_RE.search(s), "^[rv]?([0-9]+)$": group(1), Nothing when
\* there is no match (the strings of the model hold no newline)
VERSION_COUNTER_RE(s) ==
  IF s # <<>> /\ \A i \in 1..Len(s) : s[i] \in Digits THEN Some(s)
  ELSE IF Len(s) >= 2 /\ s[1] \in {"r", "v"} /\ \A i \in 2..Len(s) : s[i] \in Digits
  THEN Some(Tail(s))
  ELSE Nothing

\* str.replace(old, new) for one-character old and new
replace(s, old, new) == [i \in 1..Len(s) |-> IF s[i] = old THEN new ELSE s[i]]

\* Version.UNKNOWN
UNKNOWN == <<"u", "n", "k", "n", "o", "w", "n">>

_fix_version(version) ==
  IF VERSION_RE(version) # Nothing THEN VERSION_RE(version)[1]
  ELSE IF VERSION_DASH_RE(version) # Nothing
  THEN replace(VERSION_DASH_RE(version)[1], "-", ".")
  ELSE IF VERSION_UNDERSCORE_RE(version) # Nothing
  THEN replace(VERSION_UNDERSCORE_RE(version)[1], "_", ".")
  ELSE IF VERSION_DATE_RE(version) # Nothing
  THEN LET groups == VERSION_DATE_RE(version)[1] IN groups[1] \o groups[2] \o groups[3]
  ELSE IF VERSION_COUNTER_RE(version) # Nothing THEN VERSION_COUNTER_RE(version)[1]
  ELSE UNKNOWN

\* str.split(sep): the pieces between the occurrences of sep
RECURSIVE split(_, _)
split(s, sep) ==
  IF \A i \in 1..Len(s) : s[i] # sep THEN <<s>>
  ELSE LET i == CHOOSE k \in 1..Len(s) : s[k] = sep /\ \A m \in 1..(k - 1) : s[m] # sep
       IN  <<SubSeq(s, 1, i - 1)>> \o split(SubSeq(s, i + 1, Len(s)), sep)

DigitValue(c) == CHOOSE n \in 0..9 : DigitChars[n + 1] = c

\* int(x) of a non-empty string of digits
RECURSIVE int(_)
int(x) ==
  IF x = <<>> THEN 0
  ELSE 10 * int(SubSeq(x, 1, Len(x) - 1)) + DigitValue(x[Len(x)])

\* _to_numeric: tuple(int(x) for x in version.split(".")), None (Nothing) when
\* int raises ValueError on a piece that is empty or holds a non-digit
_to_numeric(version) ==
  LET pieces == split(version, ".")
  IN  IF \A i \in 1..Len(pieces) :
           pieces[i] # <<>> /\ \A k \in 1..Len(pieces[i]) : pieces[i][k] \in Digits
      THEN [i \in 1..Len(pieces) |-> int(pieces[i])]
      ELSE Nothing

\* Version.__init__ with the default fixer
Version(version) ==
  LET fixed == _fix_version(version)
  IN  MkVersion(Str(version), Str(fixed), _to_numeric(fixed),
                VERSION_DATE_RE(IF fixed # UNKNOWN THEN fixed ELSE version) # Nothing)

\* Version(): original = fixed = "unknown", no numeric form, not a date
UnknownVersion == MkVersion("unknown", "unknown", Nothing, FALSE)
\* Version("1.0.0"), Version("1.1.0"), Version("20230101")
V_1_0_0 == MkVersion("1.0.0", "1.0.0", <<1, 0, 0>>, FALSE)
V_1_1_0 == MkVersion("1.1.0", "1.1.0", <<1, 1, 0>>, FALSE)
V_20230101 == MkVersion("20230101", "20230101", <<20230101>>, TRUE)

unknown(v) == v.original = "unknown"

\* Python tuple comparison s < t: first difference decides, else the shorter
RECURSIVE TupleLt(_, _)
TupleLt(s, t) ==
  IF s = <<>> THEN t # <<>>
  ELSE IF t = <<>> THEN FALSE
  ELSE IF Head(s) # Head(t) THEN Head(s) < Head(t)
  ELSE TupleLt(Tail(s), Tail(t))

\* variant: the date rule is left out, the tuples alone decide
Lt_by_tuple_only(self, other) ==
  IF other.to_numeric = Nothing THEN FALSE
  ELSE IF self.to_numeric = Nothing THEN TRUE
  ELSE TupleLt(self.to_numeric, other.to_numeric)

\* Version.__lt__
Lt(self, other) ==
  IF other.to_numeric = Nothing THEN FALSE
  ELSE IF self.to_numeric = Nothing THEN TRUE
  ELSE IF self.is_date # other.is_date THEN self.is_date
  ELSE TupleLt(self.to_numeric, other.to_numeric)

\* variant: equality of the spellings
Eq_of_original(self, other) == self.original = other.original

\* Version.__eq__
Eq(self, other) == self.fixed = other.fixed

\* hash of a str: equal strings have equal hashes
hash(str) == <<"hash", str>>

\* Version.__hash__
__hash__(self) == hash(self.fixed)

\* functools.total_ordering: __gt__ = not (lt or eq), __le__ = lt or eq
Gt(self, other) == ~(Lt(self, other) \/ Eq(self, other))
Le(self, other) == Lt(self, other) \/ Eq(self, other)

inconsistent_with(self, other) ==
  ~unknown(other) /\ ~unknown(self) /\ other.is_date # self.is_date

consistent_with(self, other) ==
  ~unknown(other) /\ ~unknown(self) /\ other.is_date = self.is_date

\* variant: up to date means that the recipe version is not older
up_to_date_with_not_older(self, other) == consistent_with(self, other) /\ ~Lt(self, other)

\* variant: the comparison of the two versions is left out
updatable_to_any_consistent(self, other) == consistent_with(self, other)

updatable_to(self, other) == consistent_with(self, other) /\ Gt(other, self)

up_to_date_with(self, other) == consistent_with(self, other) /\ Le(other, self)

\* ------------------------------------------------- project_specifics.py
UpperLetters == <<"A", "B", "C", "D", "E", "F", "G", "H", "I", "J", "K", "L", "M",
                  "N", "O", "P", "Q", "R", "S", "T", "U", "V", "W", "X", "Y", "Z">>
LowerLetters == <<"a", "b", "c", "d", "e", "f", "g", "h", "i", "j", "k", "l", "m",
                  "n", "o", "p", "q", "r", "s", "t", "u", "v", "w", "x", "y", "z">>

\* re.IGNORECASE on ASCII letters: both sides are compared in lower case
lower(c) ==
  IF \E i \in 1..26 : UpperLetters[i] = c
  THEN LowerLetters[CHOOSE i \in 1..26 : UpperLetters[i] = c]
  ELSE c

casefold(s) == [i \in 1..Len(s) |-> lower(s[i])]

startswith(s, prefix) ==
  Len(s) >= Len(prefix) /\ SubSeq(s, 1, Len(prefix)) = prefix

contains(s, part) ==
  \E i \in 1..(Len(s) - Len(part) + 1) : SubSeq(s, i, i + Len(part) - 1) = part

\* the compiled patterns, named by their pattern text
PRERELEASE_RE == "(.*)[\\._-]?(rc|alpha|beta|pre|preview)[\\._-]?[0-9]*$"
TEST_RE == "(.*)test(.*)"
NNG_RE == "^r12$"
RELEASES_RE == "^releases\\/(.*)"
THREE_GROUPS_RE == "^[0-9]+\\.[0-9]+\\.[0-9]+$"

PreReleaseWords ==
  {<<"r", "c">>, <<"a", "l", "p", "h", "a">>, <<"b", "e", "t", "a">>, <<"p", "r", "e">>,
   <<"p", "r", "e", "v", "i", "e", "w">>}

\* [\._-]: a dot, an underscore or a dash (the dash is last in the class)
TagSeparators == {".", "_", "-"}

\* regex.match(tag): a match that starts at the first character
re_match(pattern, tag) ==
  CASE pattern = PRERELEASE_RE ->
         \* anything, then one of the words, an optional separator and digits
         \* up to the end, letters in either case
         LET t == casefold(tag)
         IN  \E i \in 1..Len(t), w \in PreReleaseWords :
               /\ i + Len(w) - 1 <= Len(t)
               /\ SubSeq(t, i, i + Len(w) - 1) = w
               /\ LET rest == SubSeq(t, i + Len(w), Len(t))
                  IN  \/ \A k \in 1..Len(rest) : rest[k] \in Digits
                      \/ /\ rest # <<>>
                         /\ rest[1] \in TagSeparators
                         /\ \A k \in 2..Len(rest) : rest[k] \in Digits
    [] pattern = TEST_RE -> contains(casefold(tag), <<"t", "e", "s", "t">>)
    [] pattern = NNG_RE -> tag = <<"r", "1", "2">>
    [] pattern = RELEASES_RE ->
         startswith(tag, <<"r", "e", "l", "e", "a", "s", "e", "s", "/">>)
    [] pattern = THREE_GROUPS_RE ->
         LET pieces == split(tag, ".")
         IN  /\ Len(pieces) = 3
             /\ \A i \in 1..3 :
                  pieces[i] # <<>> /\ \A k \in 1..Len(pieces[i]) : pieces[i][k] \in Digits

\* Global tag blacklist, applied to all projects
TAGS_BLACKLIST == <<PRERELEASE_RE, TEST_RE>>

\* PROJECT_TAGS_BLACKLIST.get(name, []), for the projects of the model
PROJECT_TAGS_BLACKLIST(name) ==
  IF name = "nng" THEN <<NNG_RE>> \o TAGS_BLACKLIST ELSE <<>>

\* PROJECT_TAGS_WHITELIST.get(name, []), for the projects of the model
PROJECT_TAGS_WHITELIST(name) ==
  CASE name = "glslang" -> <<THREE_GROUPS_RE>>
    [] name = "coin-clp" -> <<RELEASES_RE>>
    [] OTHER -> <<>>

\* ------------------------------------------- upstream_project.py, tags
\* GitProject.__init__: self.whitelist, self.blacklist
whitelist(name) == PROJECT_TAGS_WHITELIST(name)
blacklist(name) == TAGS_BLACKLIST \o PROJECT_TAGS_BLACKLIST(name)

\* variant: the blacklist is applied to the tags the whitelist kept
_valid_tags_both_lists(name, tag) ==
  /\ whitelist(name) # <<>> =>
       \E i \in 1..Len(whitelist(name)) : re_match(whitelist(name)[i], tag)
  /\ \A i \in 1..Len(blacklist(name)) : ~re_match(blacklist(name)[i], tag)

\* GitProject._valid_tags
_valid_tags(name, tag) ==
  IF whitelist(name) # <<>>
  THEN \E i \in 1..Len(whitelist(name)) : re_match(whitelist(name)[i], tag)
  ELSE \A i \in 1..Len(blacklist(name)) : ~re_match(blacklist(name)[i], tag)

\* _parse_tags and _parse_git_repo: one Version per tag that _valid_tags
\* keeps, in the order of the "git for-each-ref" output
RECURSIVE _parse_git_repo(_, _)
_parse_git_repo(name, refs) ==
  IF refs = <<>> THEN <<>>
  ELSE IF _valid_tags(name, Head(refs))
       THEN <<Version(Head(refs))>> \o _parse_git_repo(name, Tail(refs))
       ELSE _parse_git_repo(name, Tail(refs))

\* ------------------------------------------------------------------ yaml.py
\* a str object as ruamel holds it: its text and the quotes it is written in
\* ("plain" for a str without quote style)
PyStr(text, style) == [type |-> "str", text |-> text, style |-> style]

\* DoubleQuotes = DoubleQuotedScalarString
DoubleQuotes(text) == PyStr(text, "double")

\* the type the YAML 1.2 core schema gives a plain scalar
resolve(text) ==
  LET digits == {i \in 1..Len(text) : text[i] \in Digits}
      dots == {i \in 1..Len(text) : text[i] = "."}
  IN  IF text # <<>> /\ digits = 1..Len(text) THEN "int"
      ELSE IF Cardinality(dots) = 1 /\ digits # {} /\ digits \cup dots = 1..Len(text)
           THEN "float"
           ELSE "str"

\* variant: every scalar is written without quotes
represent_unquoted(value) == [style |-> "plain", text |-> value.text]

\* yaml.dump of a scalar: a str keeps its quotes; a str without quote style
\* is written plain unless a plain scalar of this text would be read as a
\* number, then it is written in single quotes
represent(value) ==
  CASE value.type # "str" -> [style |-> "plain", text |-> value.text]
    [] value.type = "str" /\ value.style # "plain" ->
         [style |-> value.style, text |-> value.text]
    [] value.type = "str" /\ value.style = "plain" /\ resolve(value.text) = "str" ->
         [style |-> "plain", text |-> value.text]
    [] OTHER -> [style |-> "single", text |-> value.text]

\* yaml.load of a scalar, with preserve_quotes
construct(token) ==
  IF token.style = "plain"
  THEN [type |-> resolve(token.text), text |-> token.text, style |-> "plain"]
  ELSE PyStr(token.text, token.style)

\* == and hash of two scalar keys: a str equals a str of the same text,
\* whatever its quotes
py_eq(a, b) == a.type = b.type /\ a.text = b.text

\* A mapping is a sequence of entries [key, value] in the order of its keys.
\* The value of an entry of "versions" and of "sources" is a mapping of field
\* names, held as a set of <<name, scalar>>; the value of an entry of
\* "patches" is a list object [id, items], id being the identity of the
\* object.
has_key(container, key) ==
  \E i \in 1..Len(container) : py_eq(container[i].key, key)

\* container[key]
getitem(container, key) ==
  container[CHOOSE i \in 1..Len(container) : py_eq(container[i].key, key)].value

\* container[key] = value: an existing key keeps its place and its key object
setitem(container, key, value) ==
  IF has_key(container, key)
  THEN [i \in 1..Len(container) |->
          IF py_eq(container[i].key, key)
          THEN [key |-> container[i].key, value |-> value]
          ELSE container[i]]
  ELSE Append(container, [key |-> key, value |-> value])

\* ordereddict.insert below its first return: the mapping is emptied and
\* filled again, the new key being set when index pos is reached
RECURSIVE refill(_, _, _, _, _, _)
refill(self, od, index, pos, key, value) ==
  IF od = <<>> THEN self
  ELSE LET before == IF pos = index THEN setitem(self, key, value) ELSE self
       IN  refill(setitem(before, Head(od).key, Head(od).value), Tail(od), index + 1,
                  pos, key, value)

\* variant of insert: the new entry takes the place of the entry at pos
insert_replacing(container, pos, key, value) ==
  IF pos >= Len(container) THEN setitem(container, key, value)
  ELSE [i \in 1..Len(container) |->
          IF i = pos + 1 THEN [key |-> key, value |-> value] ELSE container[i]]

\* CommentedMap.insert(pos, key, value), pos counted from 0
insert(container, pos, key, value) ==
  IF pos >= Len(container) THEN setitem(container, key, value)
  ELSE refill(<<>>, container, 0, pos, key, value)

\* the fields of one entry, scalar by scalar
map_fields(fields, f(_)) == {<<pair[1], f(pair[2])>> : pair \in fields}

\* a mapping of entries whose values are mappings of fields
map_entries(container, f(_)) ==
  [i \in 1..Len(container) |->
     [key |-> f(container[i].key), value |-> map_fields(container[i].value, f)]]

\* yaml.load of the "patches" mapping: every list is an object of its own
load_patches(container) ==
  [i \in 1..Len(container) |->
     [key |-> construct(container[i].key),
      value |-> [id |-> container[i].key.text,
                 items |-> [k \in 1..Len(container[i].value.items) |->
                              construct(container[i].value.items[k])]]]]

\* yaml.dump of the "patches" mapping: a list object met a second time is
\* written as an alias of the first
dump_patches(container) ==
  [i \in 1..Len(container) |->
     [key |-> represent(container[i].key),
      value |-> IF \E j \in 1..(i - 1) : container[j].value.id = container[i].value.id
                THEN [alias |-> TRUE, items |-> <<>>]
                ELSE [alias |-> FALSE,
                      items |-> [k \in 1..Len(container[i].value.items) |->
                                   represent(container[i].value.items[k])]]]]

\* yaml.load(fil) of config.yml and of conandata.yml
load_config(file) == [versions |-> map_entries(file.versions, construct)]
load_conandata(file) ==
  [sources |-> map_entries(file.sources, construct),
   patches |-> IF file.patches = Nothing THEN Nothing
               ELSE Some(load_patches(file.patches[1]))]

\* yaml.dump(config, fil) and yaml.dump(conandata, fil)
dump_config(config) == [versions |-> map_entries(config.versions, represent)]
dump_conandata(conandata) ==
  [sources |-> map_entries(conandata.sources, represent),
   patches |-> IF conandata.patches = Nothing THEN Nothing
               ELSE Some(dump_patches(conandata.patches[1]))]

\* ---------------------------------------------------------------- recipe.py
\* what a call gives: a returned value or the exception that leaves it
Return(x) == <<"return", x>>
Raise(exc) == <<"raise", exc>>
raises(outcome) == outcome[1] = "raise"

\* the files of one recipe, as a record: config is the state of config.yml
\* ("missing", "empty" for a version table without entry, "ok" for a table
\* with the entry 1.0.0), conandata that of conandata.yml ("missing", "ok"),
\* conanfile that of conanfile.py ("missing", "broken" when loading it
\* raises, "ok"); homepage and deprecated are the attributes of its class

\* Recipe.supported
Recipe_supported(files) == files.config # "missing"

\* Recipe.config
Recipe_config(files) ==
  IF files.config = "missing" THEN Raise("RecipeError") ELSE Return(files.config)

\* Recipe.versions: RecipeError is caught and gives no version
Recipe_versions(files) ==
  IF raises(Recipe_config(files)) THEN <<>>
  ELSE IF files.config = "empty" THEN <<>> ELSE <<V_1_0_0>>

\* Recipe.most_recent_version
Recipe_most_recent_version(files) ==
  IF Recipe_versions(files) = <<>> THEN UnknownVersion
  ELSE Recipe_versions(files)[Len(Recipe_versions(files))]

\* Recipe.folder: the folder of the entry of this version, KeyError when the
\* table has no such entry
Recipe_folder(files, version) ==
  IF raises(Recipe_config(files)) THEN Recipe_config(files)
  ELSE IF \E i \in 1..Len(Recipe_versions(files)) : Eq(Recipe_versions(files)[i], version)
       THEN Return("all")
       ELSE Raise("KeyError")

\* VersionedRecipe.supported: conandata_path and conanfile_path are built
\* from folder, whose exception leaves the property
supported(files, version) ==
  IF ~Recipe_supported(files) THEN Return(FALSE)
  ELSE IF raises(Recipe_folder(files, version)) THEN Recipe_folder(files, version)
       ELSE Return(files.conandata # "missing" /\ files.conanfile # "missing")

\* VersionedRecipe.conanfile_class
conanfile_class(files) ==
  CASE files.conanfile = "missing" -> Raise("RecipeError")
    [] files.conanfile = "broken" -> Raise("Exception")
    [] OTHER -> Return([homepage |-> files.homepage, deprecated |-> files.deprecated])

\* VersionedRecipe.homepage, under return_on_exc(logger, None)
homepage(files, version) ==
  IF raises(supported(files, version)) THEN None
  ELSE IF ~supported(files, version)[2] THEN None
  ELSE IF raises(conanfile_class(files)) THEN None
  ELSE conanfile_class(files)[2].homepage

\* VersionedRecipe.deprecated, under return_on_exc(logger, False)
recipe_deprecated(files, version) ==
  IF raises(supported(files, version)) THEN FALSE
  ELSE IF ~supported(files, version)[2] THEN FALSE
  ELSE IF raises(conanfile_class(files)) THEN FALSE
  ELSE conanfile_class(files)[2].deprecated

\* recipe_info_details of update/auto.py, for a recipe with these files
recipe_info_details_of(files, version, upstream_version) ==
  IF raises(supported(files, version)) THEN supported(files, version)
  ELSE IF ~supported(files, version)[2] THEN Return("Unsupported recipe")
  ELSE IF unknown(upstream_version) THEN Return("Unsupported upstream")
  ELSE Return(None)

\* ---------------------------------------------------------------- inputs
\* The most recent declared version of every recipe of the collection
RecipeVersion(r) == V_1_0_0

\* The versions an upstream listing can show as its most recent one
UpstreamAnswers == {V_1_0_0, V_1_1_0, V_20230101}

\* ------------------------------------------------------------------ state
VARIABLES
  push_to,               \* --push-to: None or the remote name
  rebuild_if_exists,     \* rebuild_all argument of auto_update_all_recipes
  deprecated,            \* recipe.deprecated, per recipe
  clone_concurrency,     \* clone_sem.initial_count, from CCB_CLONE_CONCURRENCY
  quiet,                 \* --quiet: the logger level is ERROR, logger.info is dropped
  ver_self,              \* a Version object, left operand of the comparisons
  ver_other,             \* a Version object, right operand of the comparisons
  ver_verdict,           \* results of the comparisons of ver_self and ver_other, Nothing until computed
  tag_project,           \* recipe.name of a GitProject
  tag_refs,              \* tag names in the "git for-each-ref" output of its clone
  tag_versions,          \* its __versions, Nothing until the repository was parsed
  recipe_files,          \* the files of one recipe of the collection
  recipe_upstream,       \* the most recent version of its upstream
  recipe_info,           \* what the batch run reads of this recipe, Nothing until read
  yml_files,             \* config.yml and conandata.yml of one recipe, as written on disk
  yml_upstream,          \* the upstream version to add: its tag, source url and sha256 digest
  yml_written,           \* the two files after add_version and its result, Nothing before
  yml_versions,          \* Version(t) of every text t that is a key or a tag, built once
  sha_archive,           \* the bytes served at each source url
  sha256_memo,           \* UpstreamProject.__sha256 of one resolver: a dict keyed by Version
  sha_call,              \* the calls of source_sha256_digest on it: position, argument, result
  conan_code,            \* exit code of one "conan create" process
  conan_output,          \* its combined stdout/stderr
  conan_status,          \* the TestStatus test_recipe makes of them, Nothing before
  br_prefix,             \* --branch-prefix of one run
  br_recipes,            \* two recipes of it: name and new upstream Version
  br_names,              \* the branch names computed for them, Nothing before
  up_kind,               \* class of one upstream resolver: "git" or "github"
  _GithubProject__versions, \* its GithubProject.__versions, Nothing for None
  _GitProject__versions, \* its GitProject.__versions, Nothing for None
  up_call,               \* the calls of versions() on it: position, result, what had been returned before
  up_runs,               \* how many release listings and clones were started for it
  up_clone_sem,          \* free slots of clone_sem
  refsHeads,             \* recipes whose branch refs/heads/<branch_name> exists
  refsRemotes,           \* recipes whose branch refs/remotes/<push_to>/<branch_name> exists
  mainpc,                \* position of auto_update_all_recipes
  report,                \* the printed JSON document, Nothing until printed
  dpc,                   \* position of each parsing task
  new_upstream_version,  \* result of each parsing task
  clone_sem,             \* free slots of clone_sem
  listing_error,         \* recipes whose failed releases / cache.json request was logged
  pc,                    \* position of each update task
  pending,               \* what leaves the worktree scope once cleanup is over
  result,                \* UpdateStatus returned by each update task
  update_done,           \* update tasks in the order they ended (as_completed)
  tmpdir,                \* RecipeInWorktree.tmpdir, per update task
  dirOnDisk,             \* recipes whose temporary worktree directory exists
  removeCode,            \* exit code of "git worktree remove" per update task, Nothing until it ended
  cmakePatched,          \* recipes whose worktree CMakeLists.txt was rewritten
  patched,               \* recipes whose worktree files were rewritten by add_version
  test_status,           \* TestStatus of each update task, Nothing until tested
  branchCreated,         \* recipes for which this run created the branch
  committed,             \* recipes for which this run committed
  pushed,                \* recipes for which this run pushed
  files_written,         \* <<cci_path, recipe, file>> of every recipe file written
  io,                    \* I/O kinds each update task has started
  pull_requests,         \* cci_interface.__pull_requests, Nothing until fetched
  prPage,                \* page number each update task is fetching
  prAcc,                 \* prs accumulated by the fetch of each update task
  update_sem,            \* free slots of update_sem
  test_lock,             \* holder of test_lock, NoTask when free
  lock_waiters,          \* FIFO of tasks waiting for test_lock
  validators             \* recipes whose "conan create" process is running

verVars == <<ver_self, ver_other, ver_verdict>>
tagVars == <<tag_project, tag_refs, tag_versions>>
recipeVars == <<recipe_files, recipe_upstream, recipe_info>>
yamlVars == <<yml_files, yml_upstream, yml_written, yml_versions>>
digestVars == <<sha_archive, sha256_memo, sha_call>>
conanVars == <<conan_code, conan_output, conan_status>>
branchVars == <<br_prefix, br_recipes, br_names>>
upVars == <<up_kind, _GithubProject__versions, _GitProject__versions, up_call, up_runs,
            up_clone_sem>>
laterVars == <<branchVars, upVars>>
unitVars == <<verVars, tagVars, recipeVars, yamlVars, digestVars, conanVars, laterVars>>
envVars == <<push_to, rebuild_if_exists, deprecated, clone_concurrency, quiet, unitVars>>
refVars == <<refsHeads, refsRemotes>>
mainVars == <<mainpc, report>>
discVars == <<dpc, new_upstream_version, clone_sem, listing_error>>
resultVars == <<result, update_done>>
scopeVars == <<tmpdir, dirOnDisk, removeCode>>
histVars == <<cmakePatched, patched, test_status, branchCreated, committed, pushed, files_written>>
prVars == <<pull_requests, prPage, prAcc>>
lockVars == <<test_lock, lock_waiters, validators>>

vars == <<push_to, rebuild_if_exists, deprecated, clone_concurrency, quiet,
          ver_self, ver_other, ver_verdict, tag_project, tag_refs, tag_versions,
          recipe_files, recipe_upstream, recipe_info,
          yml_files, yml_upstream, yml_written, yml_versions,
          sha_archive, sha256_memo, sha_call,
          conan_code, conan_output, conan_status,
          br_prefix, br_recipes, br_names,
          up_kind, _GithubProject__versions, _GitProject__versions, up_call, up_runs,
          up_clone_sem,
          refsHeads, refsRemotes,
          mainpc, report, dpc, new_upstream_version, clone_sem, listing_error,
          pc, pending, result, update_done, tmpdir, dirOnDisk, removeCode,
          cmakePatched, patched, test_status, branchCreated, committed, pushed,
          files_written, io,
          pull_requests, prPage, prAcc,
          update_sem, test_lock, lock_waiters, validators>>

\* ---------------------------------------------------------- subprocess.py
ExitCodes == {0, 1}

\* call: returns the exit code
call(code) == code

\* check_call: on a non-zero code prints and calls exit(-1), which raises
\* SystemExit (a BaseException); the raise of SubprocessError is never reached
check_call(code) == IF code # 0 THEN "SystemExit" ELSE "ok"

\* check_output: raises SubprocessError on a non-zero code, else returns
\* stdout.decode(), a str
check_output(code) == IF code # 0 THEN "SubprocessError" ELSE "str"

\* ----------------------------------------------------------------- cci.py
\* owner_and_repo: calls .decode() on the value of check_output; a str has no
\* decode, so AttributeError is raised; bytes would give (owner, repo)
owner_and_repo(code) ==
  LET origin == check_output(code)
  IN  IF origin = "SubprocessError" THEN "SubprocessError"
      ELSE IF origin = "bytes" THEN "owner_repo"
      ELSE "AttributeError"

\* ------------------------------------------------------- update/common.py
TestStatus(success, error) == [success |-> success, error |-> error]

UpdateStatus(updated, ts, branch_name, owner, repo, details) ==
  [updated |-> updated, test_status |-> ts, branch_name |-> branch_name,
   branch_remote_owner |-> owner, branch_remote_repo |-> repo, details |-> details]

\* The combined stdout/stderr of "conan create" is a sequence of pieces of
\* text: the words the matchers look for, other text, and line ends
NL == "\n"
HOOK == "[HOOK - conan-center.py] pre_export(): "
ERR == "ERROR: "
WARN == "WARN: "
EIN == "Error in build() method"
INV == "Invalid configuration: missing option 'x'"
APAT == ": already patched"
NAME == "x"
TXT == "text"

\* the pieces that end with a colon and white space
ColonPieces == {HOOK, ERR, WARN}

Least(S) == CHOOSE i \in S : \A k \in S : i <= k
Greatest(S) == CHOOSE i \in S : \A k \in S : k <= i

\* ^ with re.M: position i is at the start of a line
IsLineStart(output, i) == i = 1 \/ output[i - 1] = NL

\* the last position of the line that holds position i
EndOfLine(output, i) ==
  LET ends == {j \in i..Len(output) : output[j] = NL}
  IN  IF ends = {} THEN Len(output) ELSE Least(ends) - 1

\* \s*: the first position from i on that is not white space (line ends are
\* white space), Len(output) + 1 when there is none
SkipSpace(output, i) ==
  LET rest == {j \in i..Len(output) : output[j] # NL}
  IN  IF rest = {} THEN Len(output) + 1 ELSE Least(rest)

\* "\n".join(texts)
RECURSIVE join(_)
join(texts) ==
  IF texts = <<>> THEN <<>>
  ELSE IF Len(texts) = 1 THEN texts[1]
  ELSE texts[1] \o <<NL>> \o join(Tail(texts))

\* RE_HOOK_ERROR = ^\[HOOK.*\].*:\s*ERROR:\s*(.*)$ with re.M, matched at the
\* line start i: the last colon of the line that is followed, after white
\* space (which can hold line ends), by "ERROR:"; the result is the position
\* of that "ERROR:", Nothing without match
HookErrorAt(output, i) ==
  LET colons == {c \in i..EndOfLine(output, i) :
                   /\ output[c] \in ColonPieces
                   /\ SkipSpace(output, c + 1) <= Len(output)
                   /\ output[SkipSpace(output, c + 1)] = ERR}
  IN  IF i <= Len(output) /\ IsLineStart(output, i) /\ output[i] = HOOK /\ colons # {}
      THEN Some(SkipSpace(output, Greatest(colons) + 1)) ELSE Nothing

\* [match.group(1) for match in RE_HOOK_ERROR.finditer(output)], from
\* position from on: group 1 is the rest of the line after the white space
\* that follows "ERROR:", and that white space can hold line ends
RECURSIVE hook_errors(_, _)
hook_errors(output, from) ==
  LET starts == {i \in from..Len(output) : HookErrorAt(output, i) # Nothing}
  IN  IF starts = {} THEN <<>>
      ELSE LET k == HookErrorAt(output, Least(starts))[1]
               g == SkipSpace(output, k + 1)
               e == IF g > Len(output) THEN Len(output) ELSE EndOfLine(output, g)
           IN  <<SubSeq(output, g, e)>> \o hook_errors(output, e + 1)

\* the first line start with "ERROR:", 0 when there is none
first_error(output) ==
  LET starts == {p \in 1..Len(output) : IsLineStart(output, p) /\ output[p] = ERR}
  IN  IF starts = {} THEN 0 ELSE Least(starts)

\* regex.search(output) for ^ERROR:.*(<word>.*) with re.M | re.S, the first
\* two of RE_TEST_ERRORS: group 1 runs from the last <word> after the first
\* ERROR line to the end of the output
search_error_with(word, output) ==
  LET p == first_error(output)
      hits == {q \in (p + 1)..Len(output) : output[q] = word}
  IN  IF p = 0 \/ hits = {} THEN Nothing
      ELSE Some(SubSeq(output, Greatest(hits), Len(output)))

\* regex.search(output) for ^ERROR:\s*(.*) with re.M | re.S, the last of
\* RE_TEST_ERRORS: group 1 is all that follows the first ERROR line start and
\* its white space
search_error(output) ==
  LET p == first_error(output)
  IN  IF p = 0 THEN Nothing
      ELSE Some(SubSeq(output, SkipSpace(output, p + 1), Len(output)))

\* RE_ALREADY_PATCHED = WARN:\s*(.*):\s*already patched with re.M, matched at
\* position i: the position of the last ": already patched" of the line that
\* starts after the white space, Nothing without match
AlreadyPatchedAt(output, i) ==
  LET g == SkipSpace(output, i + 1)
      found == {a \in g..EndOfLine(output, g) : output[a] = APAT}
  IN  IF i <= Len(output) /\ output[i] = WARN /\ g <= Len(output) /\ found # {}
      THEN Some(Greatest(found)) ELSE Nothing

\* [m.group(1) for m in RE_ALREADY_PATCHED.finditer(output)], from position
\* from on
RECURSIVE patches_applied(_, _)
patches_applied(output, from) ==
  LET starts == {i \in from..Len(output) : AlreadyPatchedAt(output, i) # Nothing}
  IN  IF starts = {} THEN <<>>
      ELSE LET i == Least(starts)
               a == AlreadyPatchedAt(output, i)[1]
           IN  <<SubSeq(output, SkipSpace(output, i + 1), a - 1)>>
                 \o patches_applied(output, a + 1)

\* the names of a list without repetition (the set {m.group(1) ...}; the
\* outputs here name one patched file at most, so the order of the set does
\* not show)
RECURSIVE distinct(_)
distinct(texts) ==
  IF texts = <<>> THEN <<>>
  ELSE LET rest == distinct(SubSeq(texts, 1, Len(texts) - 1))
           last == texts[Len(texts)]
       IN  IF \E i \in 1..Len(rest) : rest[i] = last THEN rest ELSE Append(rest, last)

\* Outputs of "conan create" in a batch run: nothing to report, a patch that
\* was applied already, a configuration the recipe rejects
ValidatorOutputs == {<<>>, <<WARN, NAME, APAT>>, <<ERR, INV>>}

\* RE_ALREADY_PATCHED.search(output)
already_patched(output) == patches_applied(output, 1) # <<>>

\* variant: the ERROR line is looked for before the "Invalid configuration" frame
get_test_details_error_line_first(output) ==
  IF hook_errors(output, 1) # <<>>
  THEN <<"Hook validation failed:", NL>> \o join(hook_errors(output, 1))
  ELSE IF search_error_with(EIN, output) # Nothing THEN search_error_with(EIN, output)[1]
  ELSE IF search_error(output) # Nothing THEN search_error(output)[1]
  ELSE IF search_error_with(INV, output) # Nothing THEN search_error_with(INV, output)[1]
  ELSE IF already_patched(output)
  THEN <<"Patch already applied:", NL>> \o join(distinct(patches_applied(output, 1)))
  ELSE <<"no details">>

get_test_details(output) ==
  IF hook_errors(output, 1) # <<>>
  THEN <<"Hook validation failed:", NL>> \o join(hook_errors(output, 1))
  ELSE IF search_error_with(EIN, output) # Nothing THEN search_error_with(EIN, output)[1]
  ELSE IF search_error_with(INV, output) # Nothing THEN search_error_with(INV, output)[1]
  ELSE IF search_error(output) # Nothing THEN search_error(output)[1]
  ELSE IF already_patched(output)
  THEN <<"Patch already applied:", NL>> \o join(distinct(patches_applied(output, 1)))
  ELSE <<"no details">>

\* test_recipe, after the process ended
test_recipe_status(code, output) ==
  IF code # 0 THEN TestStatus(FALSE, get_test_details(output))
  ELSE IF already_patched(output) THEN TestStatus(FALSE, get_test_details(output))
  ELSE TestStatus(TRUE, None)

\* -------------------------------------------------------- update/auto.py
\* branch_name = f"{branch_prefix}{recipe.name}-{new_upstream_version.fixed}"
\* variant: no separator between the name and the version
f_branch_name_unseparated(branch_prefix, name, fixed) == branch_prefix \o name \o fixed

\* the f-string of auto_update_one_recipe
f_branch_name(branch_prefix, name, fixed) == branch_prefix \o name \o "-" \o fixed

\* the names of the recipes of the batch run, in the order of the run
RecipeNames == <<"fmt", "fmt-1", "zlib">>

\* the branch name of update task r, with the default --branch-prefix
branch_name(r) == f_branch_name("ccb-", RecipeNames[r], new_upstream_version[r].fixed)

\* traceback.format_exc()
Traceback == "Traceback (most recent call last)"

\* remote_branch_exists: "git show-ref" on refs/remotes/<remote>/<branch>
remote_branch_exists(r) == call(IF push_to # None /\ r \in refsRemotes THEN 0 ELSE 1) = 0

\* branch_exists: "git show-ref" on refs/heads/<branch>
branch_exists(r) == call(IF r \in refsHeads THEN 0 ELSE 1) = 0

\* ------------------------------------------------------------------- Init
\* the command line, the environment and the repository a run starts from
InitEnv ==
  /\ push_to \in {None, "origin"}
  /\ rebuild_if_exists \in BOOLEAN
  /\ deprecated \in [Recipes -> BOOLEAN]
  /\ refsHeads \in SUBSET Recipes
  /\ refsRemotes \in SUBSET Recipes
  /\ (push_to = None => refsRemotes = {})

\* the state of a batch run before its first step, with clone_sem made for
\* limit clones
InitRunWith(limit, update_limit) ==
  /\ clone_concurrency = limit
  /\ mainpc = "count_ccb_commits"
  /\ report = Nothing
  /\ dpc = [r \in Recipes |-> "none"]
  /\ new_upstream_version = [r \in Recipes |-> UnknownVersion]
  /\ listing_error = {}
  /\ clone_sem = limit
  /\ pc = [r \in Recipes |-> "none"]
  /\ pending = [r \in Recipes |-> Nothing]
  /\ result = [r \in Recipes |-> Nothing]
  /\ update_done = <<>>
  /\ tmpdir = [r \in Recipes |-> None]
  /\ dirOnDisk = {}
  /\ removeCode = [r \in Recipes |-> Nothing]
  /\ cmakePatched = {}
  /\ patched = {}
  /\ test_status = [r \in Recipes |-> Nothing]
  /\ branchCreated = {}
  /\ committed = {}
  /\ pushed = {}
  /\ files_written = {}
  /\ io = [r \in Recipes |-> {}]
  /\ pull_requests = Nothing
  /\ prPage = [r \in Recipes |-> 0]
  /\ prAcc = [r \in Recipes |-> {}]
  /\ update_sem = update_limit
  /\ test_lock = NoTask
  /\ lock_waiters = <<>>
  /\ validators = {}

\* the state before a run with the default CCB_UPDATE_CONCURRENCY
InitRun(limit) == InitRunWith(limit, CCB_UPDATE_CONCURRENCY)

\* no Version comparison is under way
VersionIdle ==
  /\ ver_self = UnknownVersion
  /\ ver_other = UnknownVersion
  /\ ver_verdict = Nothing

\* no repository is being parsed outside the batch run
TagIdle ==
  /\ tag_project = "zlib"
  /\ tag_refs = <<>>
  /\ tag_versions = Nothing

\* a recipe with all its files
HealthyRecipe ==
  [config |-> "ok", conandata |-> "ok", conanfile |-> "ok", homepage |-> None,
   deprecated |-> FALSE]

\* no recipe is being read outside the batch run
RecipeIdle ==
  /\ recipe_files = HealthyRecipe
  /\ recipe_upstream = UnknownVersion
  /\ recipe_info = Nothing

\* no version is being added outside the batch run
AddIdle ==
  /\ yml_files = [config |-> [versions |-> <<>>],
                  conandata |-> [sources |-> <<>>, patches |-> Nothing]]
  /\ yml_upstream = [tag |-> <<>>, url |-> <<>>, sha256 |-> <<>>]
  /\ yml_written = Nothing
  /\ yml_versions = <<>>

\* a call of source_sha256_digest that was not made yet
NoCall ==
  [pc |-> "idle", version |-> UnknownVersion, memoized |-> FALSE, after |-> {},
   result |-> None]

\* no digest is being computed outside the batch run
DigestIdle ==
  /\ sha_archive = <<>>
  /\ sha256_memo = <<>>
  /\ sha_call = [c \in 1..MaxDigestCalls |-> NoCall]

\* no validator output is being read outside the batch run
ConanIdle ==
  /\ conan_code = 0
  /\ conan_output = <<>>
  /\ conan_status = Nothing

\* no branch name is being computed outside the batch run
BranchIdle ==
  /\ br_prefix = ""
  /\ br_recipes = <<>>
  /\ br_names = Nothing

\* a call of versions() that has not started
NoVersionsCall == [pc |-> "idle", result |-> Nothing, after |-> {}]

\* no upstream resolver is in use outside the batch run
UpstreamIdle ==
  /\ up_kind = "git"
  /\ _GithubProject__versions = Nothing
  /\ _GitProject__versions = Nothing
  /\ up_call = [c \in 1..MaxCallers |-> NoVersionsCall]
  /\ up_runs = [releases |-> 0, clones |-> 0]
  /\ up_clone_sem = CCB_CLONE_CONCURRENCY

LaterIdle == BranchIdle /\ UpstreamIdle

\* a batch run with the default clone bound
Init ==
  InitEnv /\ InitRun(CCB_CLONE_CONCURRENCY) /\ quiet = TRUE /\ VersionIdle /\ TagIdle
  /\ RecipeIdle /\ AddIdle /\ DigestIdle /\ ConanIdle /\ LaterIdle

pipeVars == <<pc, pending, resultVars, scopeVars, histVars, io, prVars, update_sem, lockVars>>

\* ------------------------------------------- auto_update_all_recipes, part 1
\* count_ccb_commits, then one parsing task per recipe
MainStart ==
  /\ mainpc = "count_ccb_commits"
  /\ \E code \in ExitCodes :
       IF check_output(code) = "SubprocessError"
       THEN /\ mainpc' = "failed"
            /\ UNCHANGED dpc
       ELSE /\ mainpc' = "parsing"
            /\ dpc' = [r \in Recipes |-> "created"]
  /\ UNCHANGED <<envVars, refVars, report, new_upstream_version, clone_sem, listing_error,
                 pipeVars>>

\* asyncio.run cancels every pending parsing task (all but r, which ended
\* by itself); a cancelled task leaves "async with clone_sem.get()", which
\* gives its slot back
CancelParsingTasks(r) ==
  /\ dpc' = [q \in Recipes |-> IF q = r THEN "exited"
                               ELSE IF dpc[q] \in {"none", "done"} THEN dpc[q]
                               ELSE "cancelled"]
  /\ clone_sem' = clone_concurrency

\* SystemExit leaves a parsing task: the loop stops, asyncio.run cancels every
\* other task and the process exits with the status of exit(-1)
CrashParsing(r) ==
  /\ mainpc' = "exited"
  /\ CancelParsingTasks(r)

\* ------------------------------------------------- upstream_project.py
UpstreamClasses == {"GithubProject", "GitlabProject", "GnomeProject", "UnsupportedProject"}

\* a listing request raises, lists no surviving version, or lists versions
ListingAnswers == {"error", "empty", "versions"}

\* most_recent_version of an empty version list
NoVersions == UnknownVersion

\* variant: "git clone" is started without a slot of clone_sem being awaited
StartClone_unbounded(r) ==
  /\ clone_sem' = clone_sem - 1
  /\ dpc' = [dpc EXCEPT ![r] = "git_clone"]
  /\ UNCHANGED new_upstream_version

\* GitProject._clone_and_parse_git_repo up to the start of "git clone":
\* "async with clone_sem.get()" waits until a slot is free
StartClone(r) ==
  /\ clone_sem > 0
  /\ clone_sem' = clone_sem - 1
  /\ dpc' = [dpc EXCEPT ![r] = "git_clone"]
  /\ UNCHANGED new_upstream_version

\* versions() returned: most_recent_version is the result of the task
ParsingDone(r, v) ==
  /\ dpc' = [dpc EXCEPT ![r] = "done"]
  /\ new_upstream_version' = [new_upstream_version EXCEPT ![r] = v]

\* first step of a parsing task: get_upstream_project picks the class from the
\* recipe's source url, then versions() starts its listing request
ParsingStart(r) ==
  /\ mainpc = "parsing"
  /\ dpc[r] = "created"
  /\ \E cls \in UpstreamClasses :
       CASE cls = "UnsupportedProject" -> ParsingDone(r, NoVersions)
         [] cls = "GithubProject" ->
              dpc' = [dpc EXCEPT ![r] = "github_releases"] /\ UNCHANGED new_upstream_version
         [] cls = "GitlabProject" ->
              dpc' = [dpc EXCEPT ![r] = "gitlab_releases"] /\ UNCHANGED new_upstream_version
         [] cls = "GnomeProject" ->
              dpc' = [dpc EXCEPT ![r] = "gnome_cache"] /\ UNCHANGED new_upstream_version
  /\ UNCHANGED <<envVars, refVars, mainVars, clone_sem, listing_error, pipeVars>>

\* "except Exception" of the versions() of a host-API class: logger.info
\* reports the failure of the listing request, unless --quiet drops it
log_listing_error(r, answer) ==
  listing_error' = IF answer = "error" /\ ~quiet THEN listing_error \cup {r}
                   ELSE listing_error

\* GithubProject.versions / GitlabProject.versions: the releases request ends.
\* Any exception gives an empty list; an empty list falls back to
\* GitProject.versions, which clones.
HostReleasesDone(r) ==
  /\ dpc[r] \in {"github_releases", "gitlab_releases"}
  /\ \E answer \in ListingAnswers, v \in UpstreamAnswers :
       /\ IF answer = "versions"
          THEN ParsingDone(r, v) /\ UNCHANGED clone_sem
          ELSE StartClone(r)
       /\ log_listing_error(r, answer)
  /\ UNCHANGED <<envVars, refVars, mainVars, pipeVars>>

\* GnomeProject.versions: the cache.json request ends; any exception gives an
\* empty list, which is returned
GnomeCacheDone(r) ==
  /\ dpc[r] = "gnome_cache"
  /\ \E answer \in ListingAnswers, v \in UpstreamAnswers :
       /\ ParsingDone(r, IF answer = "versions" THEN v ELSE NoVersions)
       /\ log_listing_error(r, answer)
  /\ UNCHANGED <<envVars, refVars, mainVars, clone_sem, pipeVars>>

\* "git clone" ends, under check_call
GitCloneDone(r) ==
  /\ dpc[r] = "git_clone"
  /\ \E code \in ExitCodes :
       IF check_call(code) = "SystemExit"
       THEN CrashParsing(r) /\ UNCHANGED <<new_upstream_version, report>>
       ELSE /\ dpc' = [dpc EXCEPT ![r] = "for_each_ref"]
            /\ UNCHANGED <<new_upstream_version, clone_sem, mainVars>>
  /\ UNCHANGED <<envVars, refVars, listing_error, pipeVars>>

\* _parse_tags: "git for-each-ref" ends, under check_output; SubprocessError is
\* caught by GitProject.versions and gives an empty list
ForEachRefDone(r) ==
  /\ dpc[r] = "for_each_ref"
  /\ \E code \in ExitCodes, tags \in {"none", "some"} :
       IF check_output(code) = "SubprocessError" \/ tags = "none"
       THEN ParsingDone(r, NoVersions) /\ clone_sem' = clone_sem + 1
       ELSE /\ dpc' = [dpc EXCEPT ![r] = "rev_list"]
            /\ UNCHANGED <<new_upstream_version, clone_sem>>
  /\ UNCHANGED <<envVars, refVars, mainVars, listing_error, pipeVars>>

\* _count_commits: "git rev-list --count" of the surviving tag ends
RevListDone(r) ==
  /\ dpc[r] = "rev_list"
  /\ \E code \in ExitCodes, v \in UpstreamAnswers :
       /\ ParsingDone(r, IF check_output(code) = "SubprocessError" THEN NoVersions ELSE v)
       /\ clone_sem' = clone_sem + 1
  /\ UNCHANGED <<envVars, refVars, mainVars, listing_error, pipeVars>>

\* every parsing task is done: one update task per recipe is created
MainParsed ==
  /\ mainpc = "parsing"
  /\ \A r \in Recipes : dpc[r] = "done"
  /\ mainpc' = "updating"
  /\ pc' = [r \in Recipes |-> "created"]
  /\ UNCHANGED <<envVars, refVars, report, discVars, pending, resultVars, scopeVars,
                 histVars, io, prVars, update_sem, lockVars>>

\* ------------------------------------------- update/auto.py, update/common.py
\* UpdateStatus(updated=False, details=...)
Skipped(details) == UpdateStatus(FALSE, Nothing, Nothing, None, None, details)

\* except Exception: UpdateStatus(updated=False, details=traceback.format_exc())
Failed == Skipped(Traceback)

\* auto_update_one_recipe returns st
Finish(r, st) ==
  /\ pc' = [pc EXCEPT ![r] = "done"]
  /\ result' = [result EXCEPT ![r] = Some(st)]
  /\ update_done' = Append(update_done, r)

\* variant: the pull requests found are not looked at
AfterPrs_ignored(r, prs) ==
  /\ pc' = [pc EXCEPT ![r] = "remote_show_ref"]
  /\ io' = [io EXCEPT ![r] = @ \cup {"git"}]
  /\ UNCHANGED resultVars

\* after prs_opened_for: the "PR exists" gate, else start of remote_branch_exists
AfterPrs(r, prs) ==
  IF r \in prs
  THEN Finish(r, Skipped("PR exists")) /\ UNCHANGED io
  ELSE /\ pc' = [pc EXCEPT ![r] = "remote_show_ref"]
       /\ io' = [io EXCEPT ![r] = @ \cup {"git"}]
       /\ UNCHANGED resultVars

\* async with update_sem.get(), update_one_recipe, RecipeInWorktree.__aenter__
\* up to the start of "git worktree add": the temporary directory is made
EnterWorktree(r) ==
  /\ update_sem > 0
  /\ update_sem' = update_sem - 1
  /\ tmpdir' = [tmpdir EXCEPT ![r] = "ccb-tmp"]
  /\ dirOnDisk' = dirOnDisk \cup {r}
  /\ pc' = [pc EXCEPT ![r] = "worktree_add"]
  /\ UNCHANGED removeCode

\* RecipeInWorktree.cleanup up to the start of "git worktree remove"; pend is
\* what the scope is left with once cleanup is over
Cleanup(r, pend) ==
  /\ pc' = [pc EXCEPT ![r] = "worktree_remove"]
  /\ pending' = [pending EXCEPT ![r] = pend]

\* asyncio.Lock.release: the first waiter gets the lock
ReleaseLock ==
  IF lock_waiters = <<>>
  THEN test_lock' = NoTask /\ UNCHANGED lock_waiters
  ELSE test_lock' = Head(lock_waiters) /\ lock_waiters' = Tail(lock_waiters)

\* create_subprocess_exec of "conan create": started, or raises OSError
SpawnResults == {"started", "OSError"}

\* variant: "conan create" is started without test_lock being awaited
StartTest_unlocked(r) ==
  \E spawn \in SpawnResults :
    IF spawn = "started"
    THEN /\ test_lock' = r
         /\ validators' = validators \cup {r}
         /\ pc' = [pc EXCEPT ![r] = "conan_create"]
         /\ io' = [io EXCEPT ![r] = @ \cup {"conan"}]
         /\ UNCHANGED <<lock_waiters, pending>>
    ELSE /\ Cleanup(r, <<"Exception">>)
         /\ UNCHANGED <<lockVars, io>>

\* test_recipe up to the start of "conan create": async with test_lock.get()
StartTest(r) ==
  IF test_lock = NoTask /\ lock_waiters = <<>>
  THEN \E spawn \in SpawnResults :
         IF spawn = "started"
         THEN /\ test_lock' = r
              /\ validators' = validators \cup {r}
              /\ pc' = [pc EXCEPT ![r] = "conan_create"]
              /\ io' = [io EXCEPT ![r] = @ \cup {"conan"}]
              /\ UNCHANGED <<lock_waiters, pending>>
         ELSE /\ Cleanup(r, <<"Exception">>)
              /\ UNCHANGED <<lockVars, io>>
  ELSE /\ lock_waiters' = Append(lock_waiters, r)
       /\ pc' = [pc EXCEPT ![r] = "lock_wait"]
       /\ UNCHANGED <<test_lock, validators, pending, io>>

\* positions inside the worktree scope: a CancelledError raised there runs cleanup
InScope == {"worktree_add", "download", "lock_wait", "conan_create", "checkout",
            "commit", "owner_and_repo"}

\* variant: a CancelledError raised inside the worktree scope ends the task
\* at once, no cleanup is run
cancel_at_without_cleanup(p) ==
  IF p \in {"none", "done"} THEN p ELSE "cancelled"

\* task.cancel() on an update task suspended at position p: CancelledError is
\* raised at its await.  Inside the worktree scope __aexit__ (or the except
\* BaseException of __aenter__) awaits cleanup, which starts "git worktree
\* remove"; elsewhere the task ends.  A task that is not created or that is
\* done is not touched.
cancel_at(p) ==
  IF p \in {"none", "done"} THEN p
  ELSE IF p \in InScope THEN "worktree_remove"
  ELSE "cancelled"

\* asyncio.run cancels every pending update task (all but r, which ended by
\* itself) and runs the loop until they end.  A task whose cleanup was awaiting
\* "git worktree remove" leaves it there, rmtree is not reached: the process it
\* started may or may not have removed the directory.
CancelUpdateTasks(r, dirs) ==
  /\ pc' = [q \in Recipes |-> IF q = r THEN "exited" ELSE cancel_at(pc[q])]
  /\ pending' = [q \in Recipes |->
              IF q # r /\ cancel_at(pc[q]) = "worktree_remove" /\ pc[q] # "worktree_remove"
              THEN <<"CancelledError">> ELSE Nothing]
  /\ test_lock' = NoTask
  /\ lock_waiters' = <<>>
  /\ \E gone \in SUBSET {q \in Recipes \ {r} : pc[q] = "worktree_remove"} :
       dirOnDisk' = dirs \ gone

\* SystemExit leaves update task r: the loop stops, asyncio.run cancels every
\* pending task (CancelledError at its await) and runs the loop until they end.
\* A task inside a worktree scope starts its cleanup; a task whose cleanup was
\* awaiting "git worktree remove" leaves it there, rmtree is not reached.
\* dirs: the directories on disk after the step of r.
CrashUpdate(r, dirs) ==
  /\ mainpc' = "exited"
  /\ CancelUpdateTasks(r, dirs)

\* first step of an update task: the gates of auto_update_one_recipe up to the
\* first request of the pull-request listing
UpdateStart(r) ==
  /\ mainpc = "updating"
  /\ pc[r] = "created"
  /\ IF deprecated[r]
     THEN Finish(r, Skipped("recipe is deprecated")) /\ UNCHANGED <<io, prVars>>
     ELSE IF ~updatable_to(RecipeVersion(r), new_upstream_version[r])
     THEN Finish(r, Skipped("recipe is not updatable")) /\ UNCHANGED <<io, prVars>>
     ELSE IF pull_requests = Nothing
     THEN /\ pc' = [pc EXCEPT ![r] = "pull_requests"]
          /\ prPage' = [prPage EXCEPT ![r] = 1]
          /\ prAcc' = [prAcc EXCEPT ![r] = {}]
          /\ io' = [io EXCEPT ![r] = @ \cup {"http"}]
          /\ UNCHANGED <<resultVars, pull_requests>>
     ELSE AfterPrs(r, pull_requests[1]) /\ UNCHANGED prVars
  /\ UNCHANGED <<envVars, refVars, mainVars, discVars, pending, scopeVars, histVars,
                 update_sem, lockVars>>

\* _CciInterface.pull_requests: one page of the listing arrives.  results: the
\* recipes the pull requests of the page refer to; the listing ends with an
\* empty page.
PullRequestsPageDone(r) ==
  /\ pc[r] = "pull_requests"
  /\ \E error \in BOOLEAN, results \in SUBSET Recipes :
       IF error
       THEN Finish(r, Failed) /\ UNCHANGED <<io, prVars>>
       ELSE IF results = {}
       THEN /\ pull_requests' = Some(prAcc[r])
            /\ AfterPrs(r, prAcc[r])
            /\ UNCHANGED <<prPage, prAcc>>
       ELSE /\ prPage[r] <= MaxPrPages
            /\ prAcc' = [prAcc EXCEPT ![r] = @ \cup results]
            /\ prPage' = [prPage EXCEPT ![r] = @ + 1]
            /\ UNCHANGED <<pc, resultVars, io, pull_requests>>
  /\ UNCHANGED <<envVars, refVars, mainVars, discVars, pending, scopeVars, histVars,
                 update_sem, lockVars>>

\* remote_branch_exists returned
RemoteShowRefDone(r) ==
  /\ pc[r] = "remote_show_ref"
  /\ IF remote_branch_exists(r)
     THEN /\ pc' = [pc EXCEPT ![r] = IF rebuild_if_exists THEN "local_show_ref"
                                     ELSE "skip_owner_and_repo"]
          /\ UNCHANGED <<scopeVars, update_sem>>
     ELSE EnterWorktree(r)
  /\ UNCHANGED <<envVars, refVars, mainVars, discVars, pending, resultVars, histVars, io,
                 prVars, lockVars>>

\* branch_exists returned (remote branch exists, rebuild_if_exists)
LocalShowRefDone(r) ==
  /\ pc[r] = "local_show_ref"
  /\ IF branch_exists(r)
     THEN /\ pc' = [pc EXCEPT ![r] = "branch_delete"]
          /\ UNCHANGED <<scopeVars, update_sem>>
     ELSE EnterWorktree(r)
  /\ UNCHANGED <<envVars, refVars, mainVars, discVars, pending, resultVars, histVars, io,
                 prVars, lockVars>>

\* remove_branch: "git branch -D" ends, under check_call
BranchDeleteDone(r) ==
  /\ pc[r] = "branch_delete"
  /\ \E code \in ExitCodes :
       IF check_call(code) = "SystemExit"
       THEN /\ CrashUpdate(r, dirOnDisk)
            /\ UNCHANGED <<refVars, report, tmpdir, removeCode, update_sem>>
       ELSE /\ refsHeads' = refsHeads \ {r}
            /\ EnterWorktree(r)
            /\ UNCHANGED <<refsRemotes, mainVars, pending, test_lock, lock_waiters>>
  /\ UNCHANGED <<envVars, discVars, resultVars, histVars, io, prVars, validators>>

\* owner_and_repo returned or raised (remote branch exists, no rebuild)
SkipOwnerAndRepoDone(r) ==
  /\ pc[r] = "skip_owner_and_repo"
  /\ \E code \in ExitCodes :
       IF owner_and_repo(code) = "owner_repo"
       THEN Finish(r, UpdateStatus(TRUE, Some(TestStatus(TRUE, None)), branch_name(r),
                                   "owner", "repo", None))
       ELSE Finish(r, Failed)
  /\ UNCHANGED <<envVars, refVars, mainVars, discVars, pending, scopeVars, histVars, io,
                 prVars, update_sem, lockVars>>

\* ---------------------------------------------------------------- git.py
\* cci_path of the run: the primary checkout of conan-center-index
cci_path == "conan-center-index"

\* variant: the scope hands out the recipe of the primary checkout
new_recipe_of_primary(r) == [name |-> r, cci_path |-> cci_path]

\* RecipeInWorktree.__aenter__: Recipe(self.tmpdir, self.recipe.name), the
\* recipe of the temporary worktree
new_recipe(r) == [name |-> r, cci_path |-> tmpdir[r]]

\* push_branch: create_subprocess_exec("git", [...]) gets the argument list as
\* one argument, which raises TypeError before any process is started
push_branch == "TypeError"

\* "git worktree remove -f" ended with code: the directories then on disk
git_worktree_remove(dirs, r, code) == IF call(code) = 0 THEN dirs \ {r} ELSE dirs

\* variant: cleanup without the rmtree of what is left
rmtree_skipped(dirs, r) == dirs

\* if os.path.exists(self.tmpdir): shutil.rmtree(self.tmpdir)
rmtree(dirs, r) == dirs \ {r}

\* patch_cmakelists_version: rewrites test_package/CMakeLists.txt of the
\* worktree (every recipe of the collection has one that needs the rewrite)
patch_cmakelists_version(recipe) ==
  /\ cmakePatched' = cmakePatched \cup {recipe.name}
  /\ files_written' = files_written \cup {<<recipe.cci_path, recipe.name, "CMakeLists.txt">>}

\* variant: test_recipe is reached with the version files left as they were
add_version_skipped(recipe) == UNCHANGED <<patched, files_written>>

\* add_version: rewrites config.yml and conandata.yml of the worktree
add_version(recipe) ==
  /\ patched' = patched \cup {recipe.name}
  /\ files_written' = files_written \cup {<<recipe.cci_path, recipe.name, "config.yml">>,
                                           <<recipe.cci_path, recipe.name, "conandata.yml">>}

\* "git worktree add" ends, under check_call.  On success the body starts:
\* patch_cmakelists_version (no await), then add_version up to the download of
\* the source archive.
WorktreeAddDone(r) ==
  /\ pc[r] = "worktree_add"
  /\ \E code \in ExitCodes :
       IF check_call(code) = "SystemExit"
       THEN /\ Cleanup(r, <<"SystemExit">>)
            /\ UNCHANGED <<io, cmakePatched, files_written>>
       ELSE /\ patch_cmakelists_version(new_recipe(r))
            /\ pc' = [pc EXCEPT ![r] = "download"]
            /\ io' = [io EXCEPT ![r] = @ \cup {"download"}]
            /\ UNCHANGED pending
  /\ UNCHANGED <<envVars, refVars, mainVars, discVars, resultVars, scopeVars, patched,
                 test_status, branchCreated, committed, pushed, prVars, update_sem, lockVars>>

\* source_sha256_digest: the download ends.  On success add_version rewrites
\* config.yml and conandata.yml of the worktree, then test_recipe starts.
DownloadDone(r) ==
  /\ pc[r] = "download"
  /\ \E error \in BOOLEAN :
       IF error
       THEN /\ Cleanup(r, <<"Exception">>)
            /\ UNCHANGED <<patched, files_written, lockVars, io>>
       ELSE /\ add_version(new_recipe(r))
            /\ StartTest(r)
  /\ UNCHANGED <<envVars, refVars, mainVars, discVars, resultVars, scopeVars, cmakePatched,
                 test_status, branchCreated, committed, pushed, prVars, update_sem>>

\* a waiter of test_lock got the lock: "conan create" starts
LockGranted(r) ==
  /\ pc[r] = "lock_wait"
  /\ test_lock = r
  /\ \E spawn \in SpawnResults :
       IF spawn = "started"
       THEN /\ validators' = validators \cup {r}
            /\ pc' = [pc EXCEPT ![r] = "conan_create"]
            /\ io' = [io EXCEPT ![r] = @ \cup {"conan"}]
            /\ UNCHANGED <<test_lock, lock_waiters, pending>>
       ELSE /\ ReleaseLock
            /\ Cleanup(r, <<"Exception">>)
            /\ UNCHANGED <<validators, io>>
  /\ UNCHANGED <<envVars, refVars, mainVars, discVars, resultVars, scopeVars, histVars,
                 prVars, update_sem>>

\* variant: the result of test_recipe is not looked at
AfterTest_unchecked(r, ts) ==
  /\ pc' = [pc EXCEPT ![r] = "checkout"]
  /\ UNCHANGED pending

\* update_one_recipe once test_recipe returned ts: a failed test returns, a
\* passed one goes on to create_branch_and_commit
AfterTest(r, ts) ==
  IF ~ts.success
  THEN Cleanup(r, <<"return", UpdateStatus(FALSE, Some(ts), branch_name(r),
                                           None, None, ts.error)>>)
  ELSE /\ pc' = [pc EXCEPT ![r] = "checkout"]
       /\ UNCHANGED pending

\* "conan create" ends: test_lock is released, the TestStatus is computed; on
\* failure update_one_recipe returns, on success create_branch_and_commit starts
ConanCreateDone(r) ==
  /\ pc[r] = "conan_create"
  /\ \E code \in ExitCodes, output \in ValidatorOutputs :
       LET ts == test_recipe_status(code, output)
       IN  /\ test_status' = [test_status EXCEPT ![r] = Some(ts)]
           /\ AfterTest(r, ts)
  /\ validators' = validators \ {r}
  /\ ReleaseLock
  /\ UNCHANGED <<envVars, refVars, mainVars, discVars, resultVars, scopeVars, cmakePatched,
                 patched, branchCreated, committed, pushed, files_written, io, prVars, update_sem>>

\* create_branch_and_commit: "git checkout -b" ends, under check_call; git
\* refuses to create a branch that exists
CheckoutDone(r) ==
  /\ pc[r] = "checkout"
  /\ \E code \in ExitCodes :
       /\ (code = 0 => r \notin refsHeads)
       /\ IF check_call(code) = "SystemExit"
          THEN /\ Cleanup(r, <<"SystemExit">>)
               /\ UNCHANGED <<refsHeads, branchCreated>>
          ELSE /\ refsHeads' = refsHeads \cup {r}
               /\ branchCreated' = branchCreated \cup {r}
               /\ pc' = [pc EXCEPT ![r] = "commit"]
               /\ UNCHANGED pending
  /\ UNCHANGED <<envVars, refsRemotes, mainVars, discVars, resultVars, scopeVars, cmakePatched,
                 patched, test_status, committed, pushed, files_written, io, prVars, update_sem, lockVars>>

\* create_branch_and_commit: "git commit" ends, under check_call; then
\* owner_and_repo starts if push_to, else the scope is left
CommitDone(r) ==
  /\ pc[r] = "commit"
  /\ \E code \in ExitCodes :
       IF check_call(code) = "SystemExit"
       THEN /\ Cleanup(r, <<"SystemExit">>)
            /\ UNCHANGED committed
       ELSE /\ committed' = committed \cup {r}
            /\ IF push_to # None
               THEN /\ pc' = [pc EXCEPT ![r] = "owner_and_repo"]
                    /\ UNCHANGED pending
               ELSE Cleanup(r, <<"return", UpdateStatus(TRUE, test_status[r], branch_name(r),
                                                        None, None, None)>>)
  /\ UNCHANGED <<envVars, refVars, mainVars, discVars, resultVars, scopeVars, cmakePatched,
                 patched, test_status, branchCreated, pushed, files_written, io, prVars, update_sem, lockVars>>

\* owner_and_repo returned or raised; push_branch follows when it returned
OwnerAndRepoDone(r) ==
  /\ pc[r] = "owner_and_repo"
  /\ \E code \in ExitCodes :
       IF owner_and_repo(code) = "owner_repo"
       THEN /\ push_branch = "TypeError"
            /\ Cleanup(r, <<"Exception">>)
       ELSE Cleanup(r, <<"Exception">>)
  /\ UNCHANGED <<envVars, refVars, mainVars, discVars, resultVars, scopeVars, histVars, io,
                 prVars, update_sem, lockVars>>

\* RecipeInWorktree.cleanup: "git worktree remove" ends, under call; rmtree
\* removes what is left; then the scope is left with what was pending
WorktreeRemoveDone(r) ==
  /\ pc[r] = "worktree_remove"
  /\ \E code \in ExitCodes :
       LET dirs == rmtree(git_worktree_remove(dirOnDisk, r, code), r)
           kind == pending[r][1]
       IN  /\ tmpdir' = [tmpdir EXCEPT ![r] = None]
           /\ removeCode' = [removeCode EXCEPT ![r] = Some(code)]
           /\ CASE kind = "return" ->
                     /\ Finish(r, pending[r][2])
                     /\ pending' = [pending EXCEPT ![r] = Nothing]
                     /\ dirOnDisk' = dirs
                     /\ update_sem' = update_sem + 1
                     /\ UNCHANGED <<mainVars, test_lock, lock_waiters>>
                [] kind = "Exception" ->
                     /\ Finish(r, Failed)
                     /\ pending' = [pending EXCEPT ![r] = Nothing]
                     /\ dirOnDisk' = dirs
                     /\ update_sem' = update_sem + 1
                     /\ UNCHANGED <<mainVars, test_lock, lock_waiters>>
                [] kind = "SystemExit" ->
                     /\ CrashUpdate(r, dirs)
                     /\ UNCHANGED <<report, resultVars, update_sem>>
                [] kind = "CancelledError" ->
                     /\ pc' = [pc EXCEPT ![r] = "cancelled"]
                     /\ pending' = [pending EXCEPT ![r] = Nothing]
                     /\ dirOnDisk' = dirs
                     /\ UNCHANGED <<mainVars, resultVars, update_sem, test_lock, lock_waiters>>
  /\ UNCHANGED <<envVars, refVars, discVars, histVars, io, prVars, validators>>

\* ------------------------------------------- auto_update_all_recipes, part 2
\* recipe_info_details
recipe_info_details(r) ==
  IF unknown(new_upstream_version[r]) THEN "Unsupported upstream" ELSE None

\* variant: the entry of the i-th recipe takes the UpdateStatus of the i-th
\* update task to end
generate_recipe_update_status_as_completed(r, prs) ==
  LET update == result[update_done[r]][1]
      v == new_upstream_version[r]
  IN  [name |-> r,
       new_version |-> v.fixed,
       deprecated |-> deprecated[r],
       inconsistent_versioning |-> inconsistent_with(RecipeVersion(r), v),
       updatable |-> updatable_to(RecipeVersion(r), v),
       up_to_date |-> up_to_date_with(RecipeVersion(r), v),
       supported |-> ~unknown(RecipeVersion(r)) /\ ~unknown(v),
       prs_opened |-> r \in prs,
       updated_branch |-> update.branch_name,
       details |-> IF update.details # None THEN update.details ELSE recipe_info_details(r),
       test_error |-> IF update.test_status # Nothing THEN update.test_status[1].error ELSE None]

\* generate_recipe_update_status: the report entry of recipe r, from
\* info.recipe, info.new_upstream_version and info.update_task.result()
generate_recipe_update_status(r, prs) ==
  LET update == result[r][1]
      v == new_upstream_version[r]
  IN  [name |-> r,
       new_version |-> v.fixed,
       deprecated |-> deprecated[r],
       inconsistent_versioning |-> inconsistent_with(RecipeVersion(r), v),
       updatable |-> updatable_to(RecipeVersion(r), v),
       up_to_date |-> up_to_date_with(RecipeVersion(r), v),
       supported |-> ~unknown(RecipeVersion(r)) /\ ~unknown(v),
       prs_opened |-> r \in prs,
       updated_branch |-> update.branch_name,
       details |-> IF update.details # None THEN update.details ELSE recipe_info_details(r),
       test_error |-> IF update.test_status # Nothing THEN update.test_status[1].error ELSE None]

\* recipes = list(sorted(recipes, key=lambda r: r.name)): the recipes
\* enumerated for the run, which is also the order of infos
recipes == [i \in 1..NumRecipes |-> i]

\* variant: only the recipes that were updated get an entry
PrintReport_updated_only(prsOf) ==
  /\ mainpc' = "printed"
  /\ report' = Some(LET infos == SelectSeq(recipes, LAMBDA r : result[r][1].updated)
                    IN  [i \in 1..Len(infos) |->
                           generate_recipe_update_status(infos[i], prsOf[infos[i]])])

\* print(json.dumps(status)): "recipes" is the gather of
\* generate_recipe_update_status over infos; prsOf[r]: the pull-request listing
\* that the call for recipe r got from cci_interface
PrintReport(prsOf) ==
  /\ mainpc' = "printed"
  /\ report' = Some([i \in 1..Len(recipes) |->
                       generate_recipe_update_status(recipes[i], prsOf[recipes[i]])])

\* variant: the report is printed as soon as one update task is done, with
\* the entries of the tasks that are done
MainReport_partial ==
  /\ mainpc = "updating"
  /\ \E r \in Recipes : pc[r] = "done"
  /\ mainpc' = "printed"
  /\ report' = Some(LET infos == SelectSeq(recipes, LAMBDA r : pc[r] = "done")
                        prs == IF pull_requests = Nothing THEN {} ELSE pull_requests[1]
                    IN  [i \in 1..Len(infos) |->
                           generate_recipe_update_status(infos[i], prs)])
  /\ UNCHANGED <<envVars, refVars, discVars, pipeVars>>

\* every update task is done: the entries are generated; prs_opened_for needs
\* the pull-request listing, which is requested if no update task fetched it
MainReport ==
  /\ mainpc = "updating"
  /\ \A r \in Recipes : pc[r] = "done"
  /\ IF pull_requests = Nothing
     THEN mainpc' = "report_pull_requests" /\ UNCHANGED report
     ELSE PrintReport([r \in Recipes |-> pull_requests[1]])
  /\ UNCHANGED <<envVars, refVars, discVars, pipeVars>>

\* the pull-request listings requested for the report end: every
\* generate_recipe_update_status of the gather found the cache empty and
\* fetched the listing itself, the last one to end leaves its list in the
\* cache; an error leaves auto_update_all_recipes as an exception and nothing
\* is printed
ReportPullRequestsDone ==
  /\ mainpc = "report_pull_requests"
  /\ \E error \in BOOLEAN, prsOf \in [Recipes -> SUBSET Recipes], last \in Recipes :
       IF error
       THEN mainpc' = "failed" /\ UNCHANGED <<report, pull_requests>>
       ELSE PrintReport(prsOf) /\ pull_requests' = Some(prsOf[last])
  /\ UNCHANGED <<envVars, refVars, discVars, pc, pending, resultVars, scopeVars, histVars, io,
                 prPage, prAcc, update_sem, lockVars>>

\* ------------------------------------------------------------ __main__.py
\* Ctrl-C while the event loop waits for I/O: KeyboardInterrupt leaves the
\* loop, asyncio.run cancels every pending task and runs the loop until they
\* end; main() catches KeyboardInterrupt and calls sys.exit(1).  Nothing of
\* auto_update_all_recipes runs after its await was left.
Interrupt ==
  /\ mainpc \in {"count_ccb_commits", "parsing", "updating", "report_pull_requests"}
  /\ mainpc' = "interrupted"
  /\ CancelParsingTasks(NoTask)
  /\ CancelUpdateTasks(NoTask, dirOnDisk)
  /\ UNCHANGED <<envVars, refVars, report, new_upstream_version, listing_error, resultVars,
                 tmpdir, removeCode, histVars, io, prVars, update_sem, validators>>

\* the exit status of the process: Nothing while it runs.  return 0 of
\* auto_update_all_recipes goes to sys.exit; exit(-1) is status 255; an
\* exception that leaves asyncio.run ends the interpreter with status 1
exit_status ==
  CASE mainpc = "printed" -> Some(0)
    [] mainpc = "interrupted" -> Some(1)
    [] mainpc = "exited" -> Some(255)
    [] mainpc = "failed" -> Some(1)
    [] OTHER -> Nothing

\* ------------------------------------------------------------------- Next
ParsingStep(r) ==
  \/ ParsingStart(r)
  \/ HostReleasesDone(r)
  \/ GnomeCacheDone(r)
  \/ GitCloneDone(r)
  \/ ForEachRefDone(r)
  \/ RevListDone(r)

UpdateStep(r) ==
  \/ UpdateStart(r)
  \/ PullRequestsPageDone(r)
  \/ RemoteShowRefDone(r)
  \/ LocalShowRefDone(r)
  \/ BranchDeleteDone(r)
  \/ SkipOwnerAndRepoDone(r)
  \/ WorktreeAddDone(r)
  \/ DownloadDone(r)
  \/ LockGranted(r)
  \/ ConanCreateDone(r)
  \/ CheckoutDone(r)
  \/ CommitDone(r)
  \/ OwnerAndRepoDone(r)
  \/ WorktreeRemoveDone(r)

Next ==
  \/ MainStart
  \/ MainParsed
  \/ MainReport
  \/ ReportPullRequestsDone
  \/ \E r \in Recipes : ParsingStep(r)
  \/ \E r \in Recipes : UpdateStep(r)

Spec == Init /\ [][Next]_vars

\* The event loop runs a task whose awaited I/O has ended, and every subprocess
\* and every HTTP request ends: a step that can be taken is eventually taken
FairSpec == Spec /\ WF_vars(Next)

\* The discovery phase of a batch run started with CCB_CLONE_CONCURRENCY set
\* to CloneBound, fewer slots than recipes, and without --quiet
CloneInit ==
  InitEnv /\ InitRun(CloneBound) /\ quiet = FALSE /\ VersionIdle /\ TagIdle /\ RecipeIdle
  /\ AddIdle /\ DigestIdle /\ ConanIdle /\ LaterIdle

CloneNext ==
  \/ MainStart
  \/ \E r \in Recipes : ParsingStep(r)

CloneSpec == CloneInit /\ [][CloneNext]_vars

\* the values of CCB_UPDATE_CONCURRENCY the runs are started with: fewer
\* slots than recipes, and the default
UpdateLimits == {UpdateBound, CCB_UPDATE_CONCURRENCY}

\* A batch run started with CCB_UPDATE_CONCURRENCY set to one of UpdateLimits
UpdateBoundInit ==
  /\ InitEnv
  /\ \E update_limit \in UpdateLimits : InitRunWith(CCB_CLONE_CONCURRENCY, update_limit)
  /\ quiet = TRUE
  /\ VersionIdle /\ TagIdle /\ RecipeIdle /\ AddIdle /\ DigestIdle /\ ConanIdle /\ LaterIdle

UpdateBoundSpec == UpdateBoundInit /\ [][Next]_vars

\* ------------------------------------------------- Version comparisons
\* characters of the enumerated version strings
VersionAlphabet == {"0", "1", "2", ".", "v"}

\* every string over VersionAlphabet of at most n characters
RECURSIVE StringsUpTo(_)
StringsUpTo(n) ==
  IF n = 0 THEN {<<>>}
  ELSE LET shorter == StringsUpTo(n - 1)
       IN  shorter \cup {Append(t, c) : t \in shorter, c \in VersionAlphabet}

\* tags and recipe versions of the shapes the fixers know: dotted, dashed,
\* underscored, dates, counters, prefixed, unparsable
VersionSamples ==
  {<<"u", "n", "k", "n", "o", "w", "n">>, <<"1", ".", "2", ".", "3">>,
   <<"1", ".", "2", ".", "4">>, <<"2", "0", "2", "3", "0", "1", "0", "1">>,
   <<"2", "0", "2", "2", "1", "2", "3", "1">>,
   <<"2", "0", "2", "3", "-", "0", "1", "-", "0", "1">>,
   <<"2", "0", "2", "3", ".", "0", "1", ".", "0", "1">>,
   <<"v", "2", "0", "2", "3", "0", "1", "0", "1">>,
   <<"2", "0", "2", "3", "0", "1", "0", "1", "5">>, <<"1", ".", "0">>,
   <<"1", ".", "0", "0">>, <<"1", ".", "0", "1">>, <<"1", ".", "1">>,
   <<"1", ".", "1", "0">>, <<"1", ".", "9">>, <<"v", "1", ".", "2">>,
   <<"r", "1", "2">>, <<"1", "_", "2">>, <<"1", "-", "2">>,
   <<"r", "e", "l", "e", "a", "s", "e", "-", "1", ".", "2", ".", "3">>,
   <<"a", "b", "c">>,
   <<"1", ".", "3", ".", "0">>, <<"2", ".", "0", ".", "0">>,
   <<"u", "n", "k", "n", "o", "w", "n", "-", "g", "a", "r", "b", "a", "g", "e">>}

VersionStrings == StringsUpTo(MaxVersionLen) \cup VersionSamples

\* the Version objects of these strings
VersionObjects == {Version(t) : t \in VersionStrings}

\* no batch run is under way
NoBatchRun ==
  /\ push_to = None
  /\ rebuild_if_exists = FALSE
  /\ deprecated = [r \in Recipes |-> FALSE]
  /\ refsHeads = {}
  /\ refsRemotes = {}
  /\ quiet = TRUE
  /\ InitRun(CCB_CLONE_CONCURRENCY)

\* the variables of the batch run
runVars == <<push_to, rebuild_if_exists, deprecated, clone_concurrency, quiet,
             refVars, mainVars, discVars, pipeVars>>

\* two Version objects are constructed, no batch run is under way
VersionInit ==
  /\ NoBatchRun
  /\ TagIdle
  /\ RecipeIdle
  /\ AddIdle /\ DigestIdle /\ ConanIdle /\ LaterIdle
  /\ ver_self \in VersionObjects
  /\ ver_other \in VersionObjects
  /\ ver_verdict = Nothing

\* the comparisons and the derived predicates of ver_self against ver_other
Compare ==
  /\ ver_verdict = Nothing
  /\ ver_verdict' = Some([lt |-> Lt(ver_self, ver_other),
                          eq |-> Eq(ver_self, ver_other),
                          gt |-> Lt(ver_other, ver_self),
                          hash_eq |-> __hash__(ver_self) = __hash__(ver_other),
                          updatable_to |-> updatable_to(ver_self, ver_other),
                          up_to_date_with |-> up_to_date_with(ver_self, ver_other),
                          inconsistent_with |-> inconsistent_with(ver_self, ver_other)])
  /\ UNCHANGED <<runVars, ver_self, ver_other, tagVars, recipeVars, yamlVars, digestVars, conanVars, laterVars>>

VersionNext == Compare

VersionSpec == VersionInit /\ [][VersionNext]_vars

\* ------------------------------------------------- tag filtering
\* projects with a whitelist (coin-clp, glslang), with a blacklist of their
\* own (nng) and with neither (zlib)
TagProjects == {"coin-clp", "glslang", "nng", "zlib"}

TagNames ==
  {<<"1", ".", "0", ".", "0">>, <<"1", ".", "2", ".", "0">>, <<"v", "1", ".", "0">>,
   <<"r", "e", "l", "e", "a", "s", "e", "s", "/", "1", ".", "0">>,
   <<"r", "e", "l", "e", "a", "s", "e", "s", "/", "1", ".", "1", "-", "r", "c", "1">>,
   <<"1", ".", "0", ".", "0", "-", "r", "c", "1">>,
   <<"v", "2", ".", "0", "-", "B", "E", "T", "A", ".", "2">>,
   <<"1", ".", "0", "p", "r", "e">>, <<"r", "1", "2">>, <<"r", "1", "3">>,
   <<"t", "e", "s", "t", "-", "1", ".", "0">>,
   <<"v", "1", ".", "0", "-", "T", "e", "s", "t">>, <<"p", "r", "e", "v", "i", "e", "w">>,
   <<"1", ".", "2", ".", "3", ".", "4">>,
   <<"p", "r", "e", "r", "e", "l", "e", "a", "s", "e", "-", "1", ".", "0">>,
   <<"l", "a", "t", "e", "s", "t">>}

RECURSIVE TagLists(_)
TagLists(n) ==
  IF n = 0 THEN {<<>>}
  ELSE LET shorter == TagLists(n - 1)
       IN  shorter \cup {Append(l, t) : l \in shorter, t \in TagNames}

\* the repository of one project was cloned, it has at most MaxTags tags
TagInit ==
  /\ NoBatchRun
  /\ VersionIdle
  /\ RecipeIdle
  /\ AddIdle /\ DigestIdle /\ ConanIdle /\ LaterIdle
  /\ tag_project \in TagProjects
  /\ tag_refs \in TagLists(MaxTags)
  /\ tag_versions = Nothing

\* GitProject._parse_git_repo
ParseGitRepo ==
  /\ tag_versions = Nothing
  /\ tag_versions' = Some(_parse_git_repo(tag_project, tag_refs))
  /\ UNCHANGED <<runVars, verVars, tag_project, tag_refs, recipeVars, yamlVars, digestVars, conanVars, laterVars>>

TagNext == ParseGitRepo

TagSpec == TagInit /\ [][TagNext]_vars

\* ------------------------------------------------- recipe metadata
\* one recipe of the collection, its files in any state
RecipeInit ==
  /\ NoBatchRun
  /\ VersionIdle
  /\ TagIdle
  /\ AddIdle /\ DigestIdle /\ ConanIdle /\ LaterIdle
  /\ recipe_files \in [config : {"missing", "empty", "ok"},
                        conandata : {"missing", "ok"},
                        conanfile : {"missing", "broken", "ok"},
                        homepage : {None, "https://example.org"},
                        deprecated : BOOLEAN]
  /\ recipe_upstream \in {UnknownVersion, V_1_1_0}
  /\ recipe_info = Nothing

\* what auto_update_all_recipes and generate_recipe_update_status read of the
\* recipe: recipe.for_version(recipe.most_recent_version()), then supported,
\* homepage, deprecated and recipe_info_details
ReadRecipe ==
  /\ recipe_info = Nothing
  /\ LET version == Recipe_most_recent_version(recipe_files)
     IN  recipe_info' =
           Some([version |-> version,
                 supported |-> supported(recipe_files, version),
                 homepage |-> homepage(recipe_files, version),
                 deprecated |-> recipe_deprecated(recipe_files, version),
                 details |-> recipe_info_details_of(recipe_files, version, recipe_upstream)])
  /\ UNCHANGED <<runVars, verVars, tagVars, recipe_files, recipe_upstream, yamlVars, digestVars, conanVars, laterVars>>

RecipeNext == ReadRecipe

RecipeSpec == RecipeInit /\ [][RecipeNext]_vars

\* --------------------------------------------------- add_version (common.py)
\* keys of the version tables of the recipes
TableKeys ==
  {<<"1", ".", "0">>,
   <<"1", ".", "1">>,
   <<"2", ".", "0">>,
   <<"c", "c", "i", ".", "2", "0", "2", "0", "0", "2", "0", "3">>}

\* tag names of the upstream versions to add
UpstreamTags ==
  {<<"v", "1", ".", "2">>,
   <<"0", ".", "9">>,
   <<"2", ".", "1">>,
   <<"2", "0", "2", "3", "0", "1", "0", "1">>,
   <<"1", ".", "0", "0">>}

KeyTexts == TableKeys \cup UpstreamTags \cup {_fix_version(t) : t \in TableKeys \cup UpstreamTags}

\* Version(ckey) of a key of a mapping
VersionOfKey(key) == yml_versions[key.text]

\* the str version.fixed, character by character
fixed_text(version) == CHOOSE t \in DOMAIN yml_versions : Str(t) = version.fixed

\* variant of smart_insert: the new key always goes to the end
smart_insert_at_end(container, key, value) == insert(container, Len(container), key, value)

\* smart_insert of add_version
smart_insert(container, key, value) ==
  LET container_keys == [i \in 1..Len(container) |-> container[i].key]
      n == Len(container_keys)
      ascending == Lt(VersionOfKey(container_keys[1]), VersionOfKey(container_keys[n]))
      found == IF ascending
               THEN {i \in 1..n : Gt(VersionOfKey(container_keys[i]), VersionOfKey(key))}
               ELSE {i \in 1..n : Lt(VersionOfKey(container_keys[i]), VersionOfKey(key))}
      insert_idx == IF found = {} THEN n
                    ELSE (CHOOSE i \in found : \A k \in found : i <= k) - 1
  IN  insert(container, insert_idx, key, value)

\* sorted(versions): the order of a stable sort by Version.__lt__
RECURSIVE sorted(_)
sorted(versions) ==
  IF versions = <<>> THEN <<>>
  ELSE LET n == Len(versions)
           rest == sorted(SubSeq(versions, 1, n - 1))
           last == versions[n]
           place == Cardinality({i \in 1..Len(rest) : ~Lt(last, rest[i])})
       IN  SubSeq(rest, 1, place) \o <<last>> \o SubSeq(rest, place + 1, Len(rest))

\* Recipe.most_recent_version over the loaded config.yml
most_recent_version(config) ==
  LET versions == [i \in 1..Len(config.versions) |-> VersionOfKey(config.versions[i].key)]
  IN  IF versions = <<>> THEN UnknownVersion ELSE sorted(versions)[Len(versions)]

\* Recipe.folder(version) over the loaded config.yml
folder(config, version) ==
  LET hits == {i \in 1..Len(config.versions) :
                 Eq(VersionOfKey(config.versions[i].key), version)}
      first == CHOOSE i \in hits : \A k \in hits : i <= k
  IN  (CHOOSE pair \in config.versions[first].value : pair[1] = "folder")[2]

\* fields[name] of the mapping of one entry
getfield(fields, name) == (CHOOSE pair \in fields : pair[1] = name)[2]

\* fields[name] = x on the mapping of one entry
setfield(fields, name, x) == {pair \in fields : pair[1] # name} \cup {<<name, x>>}

\* copy.deepcopy of a list: equal items, another object
deepcopy(obj) == [id |-> <<"copy of">> \o obj.id, items |-> obj.items]

\* dict.get(key) on the "patches" mapping, None (Nothing) when the key is absent
get(container, key) ==
  IF has_key(container, key) THEN Some(getitem(container, key)) ELSE Nothing

\* the key add_version looks the patch-set up by: recipe.version.fixed
patches_key(version) == PyStr(fixed_text(version), "plain")

\* add_version on the files config.yml and conandata.yml of the recipe, for
\* the upstream version of tag upstream.tag whose source_url and
\* source_sha256_digest are upstream.url and upstream.sha256; the result is
\* the two files as written and the returned conan_version
add_version_files(files, upstream) ==
  LET conan_version == fixed_text(yml_versions[upstream.tag])
      new_key == PyStr(conan_version, "plain")
      on_disk == load_config(files.config)
      recipe_version == most_recent_version(on_disk)
      config == load_config(files.config)
      versions_1 == smart_insert(config.versions, DoubleQuotes(conan_version), {})
      versions_2 == setitem(versions_1, new_key,
                            setfield(getitem(versions_1, new_key), "folder",
                                     folder(on_disk, recipe_version)))
      conandata == load_conandata(files.conandata)
      sources_1 == smart_insert(conandata.sources, DoubleQuotes(conan_version), {})
      sources_2 == setitem(sources_1, new_key,
                           setfield(getitem(sources_1, new_key), "url",
                                    DoubleQuotes(upstream.url)))
      sources_3 == setitem(sources_2, new_key,
                           setfield(getitem(sources_2, new_key), "sha256",
                                    DoubleQuotes(upstream.sha256)))
      most_recent_patches ==
        IF conandata.patches = Nothing THEN Nothing
        ELSE get(conandata.patches[1], patches_key(recipe_version))
      patches == IF most_recent_patches # Nothing /\ most_recent_patches[1].items # <<>>
                 THEN Some(smart_insert(conandata.patches[1], DoubleQuotes(conan_version),
                                        deepcopy(most_recent_patches[1])))
                 ELSE conandata.patches
  IN  [config |-> dump_config([versions |-> versions_2]),
       conandata |-> dump_conandata([sources |-> sources_3, patches |-> patches]),
       conan_version |-> conan_version]

\* the folder each version of the table is kept in
FolderOf(key) == IF Head(key) = "1" THEN <<"1", ".", "x">> ELSE <<"a", "l", "l">>

\* the tables of at most n distinct keys, in any order
RECURSIVE KeyLists(_)
KeyLists(n) ==
  IF n = 0 THEN {<<>>}
  ELSE LET shorter == KeyLists(n - 1)
       IN  shorter \cup {Append(l, k) : l \in shorter, k \in TableKeys}

DistinctKeyLists ==
  {l \in KeyLists(MaxTableLen) :
     l # <<>> /\ \A i, j \in 1..Len(l) : i # j => l[i] # l[j]}

Reversed(l) == [i \in 1..Len(l) |-> l[Len(l) + 1 - i]]

\* config.yml with these keys: quoted keys, one folder per entry
config_yml(keys) ==
  [versions |->
     [i \in 1..Len(keys) |->
        [key |-> [style |-> "double", text |-> keys[i]],
         value |-> {<<"folder", [style |-> "plain", text |-> FolderOf(keys[i])]>>}]]]

\* the keys of keys that are in patch_keys, in the order of keys
RECURSIVE Only(_, _)
Only(keys, patch_keys) ==
  IF keys = <<>> THEN <<>>
  ELSE IF Head(keys) \in patch_keys THEN <<Head(keys)>> \o Only(Tail(keys), patch_keys)
  ELSE Only(Tail(keys), patch_keys)

\* conandata.yml with these keys: url and sha256 of every version, and one
\* patch file for every version of patch_keys (no "patches" when there is none)
conandata_yml(keys, patch_keys) ==
  [sources |->
     [i \in 1..Len(keys) |->
        [key |-> [style |-> "double", text |-> keys[i]],
         value |-> {<<"url", [style |-> "double", text |-> <<"u", "/">> \o keys[i]]>>,
                    <<"sha256", [style |-> "double", text |-> <<"d">> \o keys[i]]>>}]],
   patches |->
     IF patch_keys = {} THEN Nothing
     ELSE LET with_patch == Only(keys, patch_keys)
          IN  Some([i \in 1..Len(with_patch) |->
                      [key |-> [style |-> "double", text |-> with_patch[i]],
                       value |-> [alias |-> FALSE,
                                  items |-> <<[style |-> "plain",
                                               text |-> <<"p", "/">> \o with_patch[i]]>>]]])]

\* sha256 digests of the new sources; a digest can be made of digits only
Digests == {<<"0", "1", "2", "3">>, <<"a", "b", "0", "1">>}

\* one recipe whose table has at most MaxTableLen versions, and an upstream
\* version that is not in the table (get_user_choice_upstream_version, or
\* the most recent upstream version of an updatable recipe)
AddInit ==
  /\ NoBatchRun
  /\ VersionIdle
  /\ TagIdle
  /\ RecipeIdle
  /\ DigestIdle /\ ConanIdle /\ LaterIdle
  /\ yml_versions = [t \in KeyTexts |-> Version(t)]
  /\ \E keys \in DistinctKeyLists :
       \E source_keys \in {keys, Reversed(keys)} :
         \E patch_keys \in SUBSET {keys[i] : i \in 1..Len(keys)} :
           yml_files = [config |-> config_yml(keys),
                        conandata |-> conandata_yml(source_keys, patch_keys)]
  /\ \E tag \in UpstreamTags, digest \in Digests :
       /\ \A i \in 1..Len(yml_files.config.versions) :
            yml_versions[yml_files.config.versions[i].key.text].fixed # yml_versions[tag].fixed
       /\ yml_upstream = [tag |-> tag, url |-> <<"u", "/">> \o tag, sha256 |-> digest]
  /\ yml_written = Nothing

\* add_version(recipe, upstream_version) on the files of the recipe
AddVersion ==
  /\ yml_written = Nothing
  /\ yml_written' = Some(add_version_files(yml_files, yml_upstream))
  /\ UNCHANGED <<runVars, verVars, tagVars, recipeVars, yml_files, yml_upstream, yml_versions, digestVars, conanVars, laterVars>>

AddNext == AddVersion

AddSpec == AddInit /\ [][AddNext]_vars

\* ------------------------------------ UpstreamProject.source_sha256_digest
\* Version("v1.1.0"): the tag v1.1.0, whose canonical form is 1.1.0
V_v1_1_0 == MkVersion("v1.1.0", "1.1.0", <<1, 1, 0>>, FALSE)

\* the versions one resolver is asked the digest of
DigestVersions == {UnknownVersion, V_1_0_0, V_1_1_0, V_v1_1_0}

\* GithubProject.source_url of a version without url attribute
source_url(version) ==
  IF unknown(version) THEN None
  ELSE "https://github.com/owner/repo/archive/" \o version.original \o ".tar.gz"

ArchiveUrls == {source_url(version) : version \in DigestVersions} \ {None}
ArchiveBytes == {"bytes_a", "bytes_b"}

\* hashlib.sha256 over the streamed bytes, hexdigest: equal exactly for equal
\* bytes
sha256(data) == <<"sha256", data>>

\* the key of a Version in a dict: __hash__ and __eq__ are those of fixed
memo_key(version) == version.fixed

\* version in self.__sha256
in_memo(memo, version) == memo_key(version) \in DOMAIN memo

\* self.__sha256[version] = digest
memoize(memo, version, digest) ==
  [k \in DOMAIN memo \cup {memo_key(version)} |->
     IF k = memo_key(version) THEN digest ELSE memo[k]]

\* one resolver, nothing memoized, the archives of its versions on the server
DigestInit ==
  /\ NoBatchRun
  /\ VersionIdle
  /\ TagIdle
  /\ RecipeIdle
  /\ AddIdle
  /\ ConanIdle /\ LaterIdle
  /\ sha_archive \in [ArchiveUrls -> ArchiveBytes]
  /\ sha256_memo = <<>>
  /\ sha_call = [c \in 1..MaxDigestCalls |-> NoCall]

\* source_sha256_digest(version) up to its first suspension: the memo is
\* looked up; without memoized digest and with a url the download starts
StartDigest(c, version) ==
  /\ sha_call[c].pc = "idle"
  /\ \A b \in 1..(c - 1) : sha_call[b].pc # "idle"
  /\ LET memoized == in_memo(sha256_memo, version)
         \* history: the calls that had returned a digest when this one was made
         after == {b \in 1..MaxDigestCalls :
                     sha_call[b].pc = "returned" /\ sha_call[b].result # None}
         this == [pc |-> "idle", version |-> version, memoized |-> memoized,
                  after |-> after, result |-> None]
     IN  sha_call' =
           [sha_call EXCEPT ![c] =
              IF memoized
              THEN [this EXCEPT !.pc = "returned", !.result = sha256_memo[memo_key(version)]]
              ELSE IF source_url(version) = None
              THEN [this EXCEPT !.pc = "returned"]
              ELSE [this EXCEPT !.pc = "client.get"]]
  /\ UNCHANGED <<runVars, verVars, tagVars, recipeVars, yamlVars, conanVars, laterVars, sha_archive, sha256_memo>>

\* the download of call c ends: with an HTTP error (raise_for_status) the
\* call raises; else the digest of the bytes is memoized and returned
DigestDone(c) ==
  /\ sha_call[c].pc = "client.get"
  /\ \E ok \in BOOLEAN :
       IF ok
       THEN LET digest == sha256(sha_archive[source_url(sha_call[c].version)])
            IN  /\ sha256_memo' = memoize(sha256_memo, sha_call[c].version, digest)
                /\ sha_call' = [sha_call EXCEPT ![c].pc = "returned", ![c].result = digest]
       ELSE /\ sha_call' = [sha_call EXCEPT ![c].pc = "raised"]
            /\ UNCHANGED sha256_memo
  /\ UNCHANGED <<runVars, verVars, tagVars, recipeVars, yamlVars, conanVars, laterVars, sha_archive>>

DigestNext ==
  \/ \E c \in 1..MaxDigestCalls, version \in DigestVersions : StartDigest(c, version)
  \/ \E c \in 1..MaxDigestCalls : DigestDone(c)

DigestSpec == DigestInit /\ [][DigestNext]_vars

\* -------------------------------------------------- test_recipe (common.py)
\* lines "conan create" can print
TestLines ==
  {<<>>, <<TXT>>, <<EIN>>, <<WARN, NAME, APAT>>,
   <<ERR>>, <<ERR, TXT>>, <<ERR, INV>>, <<ERR, TXT, EIN>>, <<TXT, ERR, TXT>>,
   <<HOOK, ERR>>, <<HOOK, ERR, TXT>>, <<HOOK, WARN, TXT>>}

\* the outputs of at most n lines
RECURSIVE OutputsUpTo(_)
OutputsUpTo(n) ==
  IF n = 1 THEN TestLines
  ELSE LET shorter == OutputsUpTo(n - 1)
       IN  shorter \cup {o \o <<NL>> \o l : o \in shorter, l \in TestLines}

\* one "conan create" process has ended
ConanInit ==
  /\ NoBatchRun
  /\ VersionIdle
  /\ TagIdle
  /\ RecipeIdle
  /\ AddIdle
  /\ DigestIdle
  /\ LaterIdle
  /\ conan_code \in ExitCodes
  /\ conan_output \in OutputsUpTo(MaxLines)
  /\ conan_status = Nothing

\* test_recipe, after the process ended
TestRecipe ==
  /\ conan_status = Nothing
  /\ conan_status' = Some(test_recipe_status(conan_code, conan_output))
  /\ UNCHANGED <<runVars, verVars, tagVars, recipeVars, yamlVars, digestVars, laterVars,
                 conan_code, conan_output>>

ConanNext == TestRecipe

ConanSpec == ConanInit /\ [][ConanNext]_vars

\* ------------------------------------------------- branch names
\* recipe names of one collection, some of which end like a version
BranchRecipeNames == {"a", "a1", "a-1", "a-1.0", "b"}

\* tags of the new upstream versions
BranchTags ==
  {<<"1", ".", "0">>, <<"v", "1", ".", "0">>, <<"1", "-", "0">>, <<"2">>, <<"1", "2">>,
   <<"r", "1", "2">>, <<"1", ".", "0", "-", "2">>}

BranchPrefixes == {"ccb-", ""}

\* two recipes with their new upstream versions are about to be updated in
\* a run with one --branch-prefix
BranchInit ==
  /\ NoBatchRun
  /\ VersionIdle /\ TagIdle /\ RecipeIdle /\ AddIdle /\ DigestIdle /\ ConanIdle
  /\ UpstreamIdle
  /\ br_prefix \in BranchPrefixes
  /\ br_recipes \in [1..2 -> [name : BranchRecipeNames,
                              new_upstream_version : {Version(t) : t \in BranchTags}]]
  /\ br_names = Nothing

\* the first statement of auto_update_one_recipe, for both recipes
ComputeBranchNames ==
  /\ br_names = Nothing
  /\ br_names' = Some([i \in 1..2 |->
                         f_branch_name(br_prefix, br_recipes[i].name,
                                       br_recipes[i].new_upstream_version.fixed)])
  /\ UNCHANGED <<runVars, verVars, tagVars, recipeVars, yamlVars, digestVars, conanVars,
                 upVars, br_prefix, br_recipes>>

BranchNext == ComputeBranchNames

BranchSpec == BranchInit /\ [][BranchNext]_vars

\* ------------------------------------------------- upstream discovery
\* what one discovery finds upstream: a list of versions, possibly empty
UpstreamListings == {<<>>, <<V_1_0_0>>, <<V_1_0_0, V_1_1_0>>}

\* how a listing or a clone ends: with a list, or with an exception
DiscoveryAnswers == {Return(l) : l \in UpstreamListings} \cup {Raise("ClientError")}

Callers == 1..MaxCallers

\* the lists that calls of versions() have returned so far
returned_lists == {up_call[c].result[1] : c \in {d \in Callers : up_call[d].pc = "returned"}}

\* return value of a call; calls is the table of calls to update
ReturnVersions(calls, c, list) ==
  up_call' = [calls EXCEPT ![c].pc = "returned", ![c].result = Some(list)]

\* GitProject.versions up to its first suspension: when __versions is None
\* the clone is started if clone_sem has a free slot, else the call waits
\* for one
GitProject_versions(calls, c, git_versions) ==
  IF git_versions # Nothing
  THEN ReturnVersions(calls, c, git_versions[1]) /\ UNCHANGED <<up_clone_sem, up_runs>>
  ELSE IF up_clone_sem > 0
  THEN /\ up_call' = [calls EXCEPT ![c].pc = "git_clone"]
       /\ up_clone_sem' = up_clone_sem - 1
       /\ up_runs' = [up_runs EXCEPT !.clones = @ + 1]
  ELSE /\ up_call' = [calls EXCEPT ![c].pc = "clone_sem"]
       /\ UNCHANGED <<up_clone_sem, up_runs>>

\* the end of GithubProject.versions: its own list when it is not empty,
\* else GitProject.versions
GithubProject_return(calls, c, github_versions) ==
  IF github_versions # <<>>
  THEN ReturnVersions(calls, c, github_versions) /\ UNCHANGED <<up_clone_sem, up_runs>>
  ELSE GitProject_versions(calls, c, _GitProject__versions)

\* one resolver of either class, no call of versions() made yet
UpstreamInit ==
  /\ NoBatchRun
  /\ VersionIdle /\ TagIdle /\ RecipeIdle /\ AddIdle /\ DigestIdle /\ ConanIdle
  /\ BranchIdle
  /\ up_kind \in {"git", "github"}
  /\ _GithubProject__versions = Nothing
  /\ _GitProject__versions = Nothing
  /\ up_call = [c \in Callers |-> NoVersionsCall]
  /\ up_runs = [releases |-> 0, clones |-> 0]
  /\ up_clone_sem \in {CloneBound, CCB_CLONE_CONCURRENCY}

\* a task calls versions() on the resolver and runs to its first suspension
CallVersions(c) ==
  /\ up_call[c].pc = "idle"
  /\ LET called == [up_call EXCEPT ![c].after = returned_lists]
     IN  IF up_kind = "git" THEN GitProject_versions(called, c, _GitProject__versions)
         ELSE IF _GithubProject__versions # Nothing
         THEN GithubProject_return(called, c, _GithubProject__versions[1])
         ELSE /\ up_call' = [called EXCEPT ![c].pc = "releases"]
              /\ up_runs' = [up_runs EXCEPT !.releases = @ + 1]
              /\ UNCHANGED up_clone_sem
  /\ UNCHANGED <<runVars, verVars, tagVars, recipeVars, yamlVars, digestVars, conanVars,
                 branchVars, up_kind, _GithubProject__versions, _GitProject__versions>>

\* the release listing of a call ends: __versions is the list found, [] on
\* an exception
ReleasesDone(c, answer) ==
  /\ up_call[c].pc = "releases"
  /\ LET list == IF raises(answer) THEN <<>> ELSE answer[2]
     IN  /\ _GithubProject__versions' = Some(list)
         /\ GithubProject_return(up_call, c, list)
  /\ UNCHANGED <<runVars, verVars, tagVars, recipeVars, yamlVars, digestVars, conanVars,
                 branchVars, up_kind, _GitProject__versions>>

\* a slot of clone_sem is given to a waiting call, which starts its clone
CloneSemGranted(c) ==
  /\ up_call[c].pc = "clone_sem"
  /\ up_clone_sem > 0
  /\ up_call' = [up_call EXCEPT ![c].pc = "git_clone"]
  /\ up_clone_sem' = up_clone_sem - 1
  /\ up_runs' = [up_runs EXCEPT !.clones = @ + 1]
  /\ UNCHANGED <<runVars, verVars, tagVars, recipeVars, yamlVars, digestVars, conanVars,
                 branchVars, up_kind, _GithubProject__versions, _GitProject__versions>>

\* the clone and the parsing of a call end: __versions is the list of the
\* tags found, list() on an exception; the slot is given back
CloneAndParseDone(c, answer) ==
  /\ up_call[c].pc = "git_clone"
  /\ LET list == IF raises(answer) THEN <<>> ELSE answer[2]
     IN  /\ _GitProject__versions' = Some(list)
         /\ ReturnVersions(up_call, c, list)
  /\ up_clone_sem' = up_clone_sem + 1
  /\ UNCHANGED <<runVars, verVars, tagVars, recipeVars, yamlVars, digestVars, conanVars,
                 branchVars, up_kind, _GithubProject__versions, up_runs>>

UpstreamNext ==
  \E c \in Callers :
    \/ CallVersions(c)
    \/ CloneSemGranted(c)
    \/ \E answer \in DiscoveryAnswers :
         \/ ReleasesDone(c, answer)
         \/ CloneAndParseDone(c, answer)

UpstreamSpec == UpstreamInit /\ [][UpstreamNext]_vars

\* A batch run during which Ctrl-C may be pressed
NextOrInterrupt ==
  \/ Next
  \/ Interrupt

InterruptSpec == Init /\ [][NextOrInterrupt]_vars

\* ----------------------------------------------------------------- claims
\* the test of update task r failed / passed
TestFailed(r) == test_status[r] # Nothing /\ ~test_status[r][1].success
TestPassed(r) == test_status[r] # Nothing /\ test_status[r][1].success

\* C1: a failure inside one recipe's pipeline (a failing git command, a
\* download error, a validator crash) is caught for that recipe; it never
\* terminates the process and never keeps the sibling pipelines from finishing:
\* no update task is left by SystemExit and none is cancelled.
C1_PipelineFailureIsCaught ==
  \A r \in Recipes : pc[r] \notin {"exited", "cancelled"}

\* C2: a discovery error of one recipe (failed clone, failed listing, answer
\* that cannot be parsed) is caught for that recipe and gives the unknown
\* version; the batch is never aborted: no parsing task is left by SystemExit
\* and none is cancelled.
C2_DiscoveryErrorIsCaught ==
  \A r \in Recipes :
    /\ dpc[r] \notin {"exited", "cancelled"}
    /\ (dpc[r] = "done" /\ unknown(new_upstream_version[r]) /\ report # Nothing
          => ~report[1][r].supported)

\* C3: at every moment at most one "conan create" process is running, and
\* test_lock is held only by a task whose validator is running or is about to
\* be started: once the validator ended, whatever its exit code, or starting it
\* raised, the task holds the lock no more.
C3_OneValidator ==
  /\ Cardinality(validators) <= 1
  /\ \A r \in Recipes : test_lock = r => pc[r] \in {"lock_wait", "conan_create"}
  /\ \A r \in Recipes : pc[r] = "conan_create" => test_lock = r /\ r \in validators

\* C3 witness: a validator is running while another pipeline waits for the lock
C3_Witness ==
  \E r, q \in Recipes : r \in validators /\ pc[r] = "conan_create" /\ pc[q] = "lock_wait"

C5_FailedValidationStops ==
  \A r \in Recipes :
    TestFailed(r) =>
      LET Returned(st) ==
            /\ ~st.updated
            /\ st.test_status = test_status[r]
            /\ st.details = test_status[r][1].error
            /\ st.details \in {get_test_details(o) : o \in ValidatorOutputs}
      IN  /\ r \notin branchCreated /\ r \notin committed /\ r \notin pushed
          /\ pc[r] \in {"worktree_remove", "done", "cancelled"}
          /\ (pc[r] = "worktree_remove" => pending[r][1] = "return" /\ Returned(pending[r][2]))
          /\ (pc[r] = "done" => Returned(result[r][1]))

\* C5 witness: a pipeline whose validation failed has returned
C5_Witness ==
  \E r \in Recipes : pc[r] = "done" /\ TestFailed(r) /\ "conan" \in io[r]

\* C6: when the files are patched and the validation passed, update_one_recipe
\* creates the branch, commits, pushes exactly when a push remote is configured
\* and returns updated=true with the computed branch name.
C6_PassedValidationUpdates ==
  \A r \in Recipes :
    (pc[r] = "done" /\ r \in patched /\ TestPassed(r)) =>
      /\ r \in branchCreated
      /\ r \in committed
      /\ (r \in pushed <=> push_to # None)
      /\ result[r][1].updated
      /\ result[r][1].branch_name = branch_name(r)

\* the stages update task r has gone through
StageOf(r) ==
  <<r \in cmakePatched, r \in patched, "conan" \in io[r], test_status[r],
    r \in branchCreated, r \in committed, r \in pushed>>

\* C7: the stages of one pipeline happen in the order patch, validate, commit,
\* push: the validator is started only with the version files patched, the
\* branch is created only after a passed validation, the commit follows the
\* branch, the push follows the commit; and every stage happens inside the
\* worktree scope, before its cleanup starts.
C7_StagesInOrder ==
  /\ [](\A r \in Recipes :
          /\ (pc[r] \in {"lock_wait", "conan_create"} \/ "conan" \in io[r])
                => r \in patched /\ r \in cmakePatched
          /\ test_status[r] # Nothing => "conan" \in io[r]
          /\ r \in branchCreated => TestPassed(r)
          /\ r \in committed => r \in branchCreated
          /\ r \in pushed => r \in committed
          /\ pc[r] \in InScope => r \in dirOnDisk /\ tmpdir[r] # None)
  /\ [][\A r \in Recipes :
          StageOf(r)' # StageOf(r)
            => pc[r] \in InScope /\ r \in dirOnDisk /\ r \in dirOnDisk']_vars

\* C7 witness: a pipeline went through patch, validation and commit, and its
\* worktree was removed afterwards
C7_Witness ==
  \E r \in Recipes :
    /\ pc[r] = "done" /\ r \in committed /\ TestPassed(r)
    /\ removeCode[r] # Nothing /\ r \notin dirOnDisk

\* C8: while the local branch found at the start of the pipeline is still
\* there (it exists and this run did not create it), no worktree exists for
\* the recipe, no file is patched, no validator was run, nothing is committed.
C8_BranchCollisionGate ==
  \A r \in Recipes :
    (r \in refsHeads /\ r \notin branchCreated) =>
      /\ r \notin dirOnDisk /\ tmpdir[r] = None
      /\ r \notin cmakePatched /\ r \notin patched
      /\ "conan" \notin io[r]
      /\ r \notin committed /\ r \notin pushed

\* C9: with rebuild_if_exists false and the remote branch there, a pipeline
\* that got past the pull-request gate returns an UpdateStatus with the branch
\* name and the remote owner and repo, without worktree, validator, commit or
\* push.
C9_RemoteBranchShortCircuit ==
  \A r \in Recipes :
    (~rebuild_if_exists /\ remote_branch_exists(r) /\ "git" \in io[r] /\ pc[r] = "done") =>
      /\ result[r][1].updated
      /\ result[r][1].branch_name = branch_name(r)
      /\ result[r][1].branch_remote_owner # None
      /\ result[r][1].branch_remote_repo # None
      /\ r \notin cmakePatched /\ r \notin patched
      /\ "conan" \notin io[r] /\ removeCode[r] = Nothing
      /\ r \notin committed /\ r \notin pushed

\* the recipe is deprecated, or its version is up to date with, inconsistent
\* with, or compared to an unknown upstream version
NotEligible(r) ==
  \/ deprecated[r]
  \/ up_to_date_with(RecipeVersion(r), new_upstream_version[r])
  \/ inconsistent_with(RecipeVersion(r), new_upstream_version[r])
  \/ unknown(new_upstream_version[r])

\* C10: the pipeline of a deprecated or not updatable recipe returns
\* updated=false before any git, network or validator operation: it never waits
\* for an I/O, starts none, and has no worktree, branch, commit or push.
C10_GateBeforeIO ==
  \A r \in Recipes :
    NotEligible(r) =>
      /\ pc[r] \in {"none", "created", "done", "cancelled"}
      /\ io[r] = {} /\ prPage[r] = 0
      /\ r \notin dirOnDisk /\ tmpdir[r] = None /\ removeCode[r] = Nothing
      /\ r \notin cmakePatched /\ r \notin patched /\ test_status[r] = Nothing
      /\ r \notin branchCreated /\ r \notin committed /\ r \notin pushed
      /\ (pc[r] = "done" => ~result[r][1].updated /\ result[r][1].branch_name = Nothing)

\* C10 witness: a deprecated recipe and a recipe with an inconsistent upstream
\* version both went through their pipeline
C10_Witness ==
  \E r, q \in Recipes :
    /\ pc[r] = "done" /\ deprecated[r]
    /\ pc[q] = "done" /\ ~deprecated[q]
    /\ inconsistent_with(RecipeVersion(q), new_upstream_version[q])

\* C11: during one batch run the paginated pull-request listing is executed at
\* most once, also when several pipelines ask for it before the first fetch
\* has completed: no two update tasks ever started the listing, and no listing
\* is in flight for two tasks at once.
C11_ListingFetchedOnce ==
  /\ Cardinality({r \in Recipes : "http" \in io[r]}) <= 1
  /\ Cardinality({r \in Recipes : pc[r] = "pull_requests"}) <= 1

\* C12: the printed report holds exactly one entry for every recipe enumerated
\* for the run, identified by name, whatever happened to the recipe (updated,
\* skipped, failed, deprecated, inconsistent, unsupported), and no other entry.
C12_OneEntryPerRecipe ==
  report # Nothing =>
    /\ \A r \in Recipes :
         Cardinality({i \in DOMAIN report[1] : report[1][i].name = r}) = 1
    /\ \A i \in DOMAIN report[1] : report[1][i].name \in Recipes

\* a report is printed for a run in which one recipe was updated and another
\* one was skipped as deprecated
C12_Witness ==
  /\ report # Nothing
  /\ \E r, q \in Recipes :
       /\ r # q
       /\ result[r][1].updated
       /\ deprecated[q] /\ result[q][1].details = "recipe is deprecated"

\* C13: every report entry pairs a recipe name with the upstream version found
\* for that recipe and with the UpdateStatus returned by the update task of that
\* recipe, whatever the order in which the tasks ended: the entry of name r is a
\* function of the values of recipe r alone.
C13_EntryOfSameRecipe ==
  report # Nothing =>
    \A i \in DOMAIN report[1] :
      LET entry == report[1][i]
          r == entry.name
          update == result[r][1]
      IN  /\ entry.new_version = new_upstream_version[r].fixed
          /\ entry.deprecated = deprecated[r]
          /\ entry.updated_branch = update.branch_name
          /\ entry.details = (IF update.details # None THEN update.details
                              ELSE recipe_info_details(r))
          /\ entry.test_error = (IF update.test_status # Nothing
                                 THEN update.test_status[1].error ELSE None)

\* a report is printed after the update tasks ended in another order than the
\* one of the recipes list, with different upstream versions and different
\* UpdateStatus values
C13_Witness ==
  /\ report # Nothing
  /\ \E i, j \in DOMAIN update_done :
       /\ i < j /\ update_done[i] > update_done[j]
       /\ result[update_done[i]] # result[update_done[j]]
       /\ new_upstream_version[update_done[i]] # new_upstream_version[update_done[j]]

\* C14: when every subprocess and every HTTP request eventually returns, a
\* batch run eventually prints its report.
C14_ReportEventuallyPrinted == <>(mainpc = "printed")

\* C15: when a pipeline task is cancelled while its worktree scope is open
\* (during patching, validation, commit or push), because the run is
\* interrupted or another task ended the loop, the cleanup of the scope starts,
\* can always proceed, and ends with the temporary directory removed and
\* RecipeInWorktree.tmpdir reset; the task ends only then.
C15_CancelledScopeIsCleaned ==
  /\ [](\A q \in Recipes :
          pending[q] = <<"CancelledError">> =>
            /\ pc[q] = "worktree_remove"
            /\ tmpdir[q] # None
            /\ ENABLED WorktreeRemoveDone(q))
  /\ [][\A q \in Recipes :
          /\ (pc[q] \in InScope /\ mainpc' \in {"interrupted", "exited"}
                /\ mainpc \notin {"interrupted", "exited"})
               => pc'[q] = "worktree_remove" /\ pending'[q] = <<"CancelledError">>
          /\ (pending[q] = <<"CancelledError">> /\ pc'[q] # pc[q])
               => pc'[q] = "cancelled" /\ q \notin dirOnDisk' /\ tmpdir'[q] = None]_vars

\* Ctrl-C reached a task during validation, after it patched the files of its
\* worktree; its cleanup ended ("git worktree remove" failed, killed by the
\* same Ctrl-C), the directory is gone and the process is about to exit with
\* status 1
C15_Witness ==
  /\ mainpc = "interrupted"
  /\ \E q \in Recipes :
       /\ pc[q] = "cancelled"
       /\ q \in patched /\ "conan" \in io[q] /\ test_status[q] = Nothing
       /\ removeCode[q] = Some(1)
       /\ q \notin dirOnDisk /\ tmpdir[q] = None
  /\ \A r \in Recipes : pc[r] # "worktree_remove"

\* C16: the report is printed only after every update task of the run has
\* finished; a run interrupted before that prints no report, not even a partial
\* one, and the process exits with a non-zero status.
C16_NoReportWhenInterrupted ==
  /\ report # Nothing =>
       /\ mainpc = "printed"
       /\ \A r \in Recipes : pc[r] = "done"
       /\ exit_status = Some(0)
  /\ mainpc = "interrupted" =>
       /\ report = Nothing
       /\ exit_status # Nothing
       /\ exit_status[1] # 0

\* the run was interrupted when one update task had returned its UpdateStatus
\* and another one was still running: nothing is printed
C16_Witness ==
  /\ mainpc = "interrupted"
  /\ report = Nothing
  /\ \E r, q \in Recipes :
       /\ pc[r] = "done" /\ result[r] # Nothing
       /\ pc[q] \in {"cancelled", "worktree_remove"}

\* C17: at every moment the number of upstream clones in progress (from the
\* start of "git clone" to the end of the tag parsing) is at most the
\* configured clone bound, however many recipes are discovered concurrently,
\* and every slot that is not in use by such a clone is free: a slot is given
\* back when the clone and the parsing end, also on error.
ClonesInProgress == {r \in Recipes : dpc[r] \in {"git_clone", "for_each_ref", "rev_list"}}

C17_CloneBound ==
  /\ Cardinality(ClonesInProgress) <= clone_concurrency
  /\ clone_sem = clone_concurrency - Cardinality(ClonesInProgress)

\* every slot is taken by a clone in progress while the releases request of
\* another recipe is still to end, which may need a clone too
C17_Witness ==
  /\ clone_sem = 0
  /\ Cardinality(ClonesInProgress) = clone_concurrency
  /\ \E r \in Recipes : dpc[r] \in {"github_releases", "gitlab_releases"}

\* C18: a pipeline run never writes a recipe file of the primary checkout:
\* every file written by patch_cmakelists_version and add_version is a file of
\* the temporary worktree of the run, whether the run succeeds, fails the
\* validation or raises; and each of the two writes is recorded there.
C18_WritesGoToWorktree ==
  /\ \A w \in files_written : w[1] # cci_path /\ w[1] = "ccb-tmp"
  /\ \A r \in cmakePatched : <<"ccb-tmp", r, "CMakeLists.txt">> \in files_written
  /\ \A r \in patched : /\ <<"ccb-tmp", r, "config.yml">> \in files_written
                        /\ <<"ccb-tmp", r, "conandata.yml">> \in files_written

\* one pipeline committed its update, another one failed the validation and a
\* report was printed: both wrote the three files, in their worktrees
C18_Witness ==
  /\ mainpc = "printed"
  /\ \E r, q \in Recipes :
       /\ r \in committed /\ result[r][1].updated
       /\ TestFailed(q) /\ ~result[q][1].updated
       /\ \A f \in {"CMakeLists.txt", "config.yml", "conandata.yml"} :
            {<<"ccb-tmp", r, f>>, <<"ccb-tmp", q, f>>} \subseteq files_written

C20_TotalOrder ==
  /\ ver_verdict # Nothing =>
       LET v == ver_verdict[1]
       IN  /\ v.lt \/ v.eq \/ v.gt
           /\ ~(v.lt /\ v.eq) /\ ~(v.eq /\ v.gt) /\ ~(v.lt /\ v.gt)
  /\ \A c \in VersionObjects :
       Lt(ver_self, ver_other) /\ Lt(ver_other, c) => Lt(ver_self, c)

\* C21: two Version values compare equal exactly when their canonical (fixed)
\* forms are equal, whatever their original spelling; equal versions have
\* equal hashes.
C21_EqualIffSameFixed ==
  ver_verdict # Nothing =>
    /\ ver_verdict[1].eq <=> (ver_self.fixed = ver_other.fixed)
    /\ ver_verdict[1].eq => ver_verdict[1].hash_eq

\* "v1.2" and "1.2": two spellings, one canonical form, equal, same hash
C21_Witness ==
  /\ ver_self.original = "v1.2" /\ ver_other.original = "1.2"
  /\ ver_verdict # Nothing
  /\ ver_verdict[1].eq /\ ver_verdict[1].hash_eq

\* C22: for every string that no canonicalization rule matches (such as
\* "unknown-garbage") Version(s).unknown is true, and Version(s) compares as
\* older than every version that has a numeric form.
C22_UnmatchedIsUnknown ==
  ver_self.fixed = "unknown" =>
    /\ unknown(ver_self)
    /\ ver_verdict # Nothing /\ ver_other.to_numeric # Nothing =>
         ver_verdict[1].lt /\ ~ver_verdict[1].gt /\ ~ver_verdict[1].eq

\* C23: among versions that have a numeric form and the same date/non-date
\* classification a < b holds exactly when the numeric tuple of a is
\* lexicographically smaller than that of b; between a date and a non-date
\* numeric version the date is the older.
C23_NumericOrder ==
  ver_verdict # Nothing /\ ver_self.to_numeric # Nothing /\ ver_other.to_numeric # Nothing =>
    LET a == ver_self.to_numeric
        b == ver_other.to_numeric
        smaller ==
          \E k \in 1..(Len(b)) :
            /\ \A i \in 1..(k - 1) : i <= Len(a) /\ a[i] = b[i]
            /\ k - 1 <= Len(a)
            /\ k = Len(a) + 1 \/ (k <= Len(a) /\ a[k] < b[k])
    IN  IF ver_self.is_date = ver_other.is_date
        THEN ver_verdict[1].lt <=> smaller
        ELSE /\ ver_verdict[1].lt <=> ver_self.is_date
             /\ ver_verdict[1].gt <=> ver_other.is_date

\* "1.2.3" < "1.3.0": the second group decides
C23_Witness ==
  /\ ver_self.original = "1.2.3" /\ ver_other.original = "1.3.0"
  /\ ver_self.to_numeric = <<1, 2, 3>> /\ ver_other.to_numeric = <<1, 3, 0>>
  /\ ver_verdict # Nothing
  /\ ver_verdict[1].lt /\ ~ver_verdict[1].gt

\* C24: a tag survives the filtering of a git-based resolver exactly when the
\* recipe has an allow-list and the tag matches one of its patterns, or the
\* recipe has no allow-list and the tag matches no pattern of the global
\* deny-list nor of its per-project deny-list; every version returned by
\* versions() comes from a surviving tag.
C24_TagSurvival ==
  tag_versions # Nothing =>
    LET allow == PROJECT_TAGS_WHITELIST(tag_project)
        deny == TAGS_BLACKLIST \o PROJECT_TAGS_BLACKLIST(tag_project)
        survives(tag) ==
          IF allow # <<>>
          THEN \E i \in 1..Len(allow) : re_match(allow[i], tag)
          ELSE ~\E i \in 1..Len(deny) : re_match(deny[i], tag)
        versions == tag_versions[1]
    IN  /\ \A i \in 1..Len(tag_refs) :
             survives(tag_refs[i]) <=>
               \E k \in 1..Len(versions) : versions[k].original = Str(tag_refs[i])
        /\ \A k \in 1..Len(versions) :
             \E i \in 1..Len(tag_refs) :
               versions[k].original = Str(tag_refs[i]) /\ survives(tag_refs[i])

\* allow-list ^releases/ of coin-clp: "releases/1.0" is kept, "v1.0" is dropped
C24_Witness ==
  /\ tag_project = "coin-clp"
  /\ tag_refs = <<<<"r", "e", "l", "e", "a", "s", "e", "s", "/", "1", ".", "0">>,
                  <<"v", "1", ".", "0">>>>
  /\ tag_versions # Nothing
  /\ Len(tag_versions[1]) = 1
  /\ tag_versions[1][1].original = "releases/1.0"

\* C25: for each host-API variant (GitHub releases, GitLab releases, Gnome
\* tarball index), when the structured listing request fails with any error,
\* versions() goes on to the generic git variant: the step in which the
\* request fails starts the clone of the same repository.
C25_ListingErrorFallsBack ==
  [][\A r \in Recipes :
       r \in listing_error' /\ r \notin listing_error => dpc'[r] = "git_clone"]_vars

\* C26: for a recipe whose metadata is missing or broken (no version table
\* file, empty version table, missing source index, descriptor that fails to
\* load) nothing that the batch run reads of it raises: the recipe version is
\* the unknown version when the version table gives none, homepage is none,
\* deprecated is false, and supported is false when a file or the table entry
\* is missing; so the batch enumeration goes on.
C26_BrokenRecipeDegrades ==
  LET no_version == recipe_files.config \in {"missing", "empty"}
      no_file == no_version \/ recipe_files.conandata = "missing"
      broken == no_file \/ recipe_files.conanfile = "broken"
  IN  recipe_info # Nothing /\ broken =>
        LET info == recipe_info[1]
        IN  /\ ~raises(info.supported) /\ ~raises(info.details)
            /\ no_version => unknown(info.version)
            /\ info.homepage = None
            /\ ~info.deprecated
            /\ no_file => info.supported = Return(FALSE)

\* what add_version was called with and what a reader of its files finds
conan_version_added == PyStr(fixed_text(yml_versions[yml_upstream.tag]), "plain")
config_before == load_config(yml_files.config)
conandata_before == load_conandata(yml_files.conandata)
config_after == load_config(yml_written[1].config)
conandata_after == load_conandata(yml_written[1].conandata)

\* C27: after add_version(recipe, v), the version table read again maps the
\* canonical form of v to the folder of the version that was the most recent
\* one of the recipe, and the source index read again maps it to exactly the
\* url and the sha256 digest the upstream project gave for v, both as strings.
C27_ReadBack ==
  yml_written # Nothing =>
    /\ has_key(config_after.versions, conan_version_added)
    /\ has_key(conandata_after.sources, conan_version_added)
    /\ LET entry == getitem(config_after.versions, conan_version_added)
           source == getitem(conandata_after.sources, conan_version_added)
           old_folder == folder(config_before, most_recent_version(config_before))
       IN  /\ {pair[1] : pair \in entry} = {"folder"}
           /\ py_eq(getfield(entry, "folder"), old_folder)
           /\ {pair[1] : pair \in source} = {"url", "sha256"}
           /\ py_eq(getfield(source, "url"), PyStr(yml_upstream.url, "plain"))
           /\ py_eq(getfield(source, "sha256"), PyStr(yml_upstream.sha256, "plain"))

\* a version was added to a table of several versions whose most recent one
\* is not the first key and is kept in folder "1.x", with a digest made of
\* digits only
C27_Witness ==
  /\ yml_written # Nothing
  /\ Len(config_before.versions) >= 2
  /\ most_recent_version(config_before) # VersionOfKey(config_before.versions[1].key)
  /\ folder(config_before, most_recent_version(config_before)).text = <<"1", ".", "x">>
  /\ resolve(yml_upstream.sha256) = "int"

\* the entries of a mapping, and the place of a key in it
Entries(container) == {container[i] : i \in 1..Len(container)}
PlaceOf(container, key) == CHOOSE i \in 1..Len(container) : py_eq(container[i].key, key)
patches_of(file) == IF file.patches = Nothing THEN <<>> ELSE file.patches[1]

\* C28: add_version adds exactly one key to the version table and one to the
\* source index, and every entry that was in config.yml and conandata.yml is
\* still there as it was written: same key, same folder, same url and sha256,
\* same patch list. No entry is replaced or deleted.
C28_OnlyAdds ==
  yml_written # Nothing =>
    /\ Len(yml_written[1].config.versions) = Len(yml_files.config.versions) + 1
    /\ Len(yml_written[1].conandata.sources) = Len(yml_files.conandata.sources) + 1
    /\ Entries(yml_files.config.versions) \subseteq Entries(yml_written[1].config.versions)
    /\ Entries(yml_files.conandata.sources) \subseteq Entries(yml_written[1].conandata.sources)
    /\ Entries(patches_of(yml_files.conandata))
         \subseteq Entries(patches_of(yml_written[1].conandata))
    /\ \A i, j \in 1..Len(config_after.versions) :
         py_eq(config_after.versions[i].key, config_after.versions[j].key) => i = j
    /\ \A i, j \in 1..Len(conandata_after.sources) :
         py_eq(conandata_after.sources[i].key, conandata_after.sources[j].key) => i = j

\* a version was added between two versions of a table that has patches
C28_Witness ==
  /\ yml_written # Nothing
  /\ yml_files.conandata.patches # Nothing
  /\ PlaceOf(config_after.versions, conan_version_added) \in 2..Len(yml_files.config.versions)
  /\ PlaceOf(conandata_after.sources, conan_version_added)
       \in 2..Len(yml_files.conandata.sources)

\* the keys of a mapping are sorted by Version order: no key is followed,
\* anywhere after it, by a lower one (ascending) or by a higher one (descending)
Ascending(container) ==
  \A i, j \in 1..Len(container) :
    i < j => ~Lt(VersionOfKey(container[j].key), VersionOfKey(container[i].key))
Descending(container) ==
  \A i, j \in 1..Len(container) :
    i < j => ~Lt(VersionOfKey(container[i].key), VersionOfKey(container[j].key))

\* the first key of the mapping is lower than its last key
FirstBelowLast(container) ==
  Lt(VersionOfKey(container[1].key), VersionOfKey(container[Len(container)].key))

most_recent_patch_sets ==
  {entry \in Entries(patches_of(yml_files.conandata)) :
     /\ Eq(VersionOfKey(construct(entry.key)), most_recent_version(config_before))
     /\ entry.value.items # <<>>}

\* the entries of "patches" written for the new version
added_patch_sets ==
  {entry \in Entries(patches_of(yml_written[1].conandata)) :
     py_eq(construct(entry.key), conan_version_added)}

\* C30: when conandata.yml lists a patch-set under the version that was the
\* most recent one of the recipe, then after add_version the new version has
\* a patch-set with the same items, written out in full and not as an alias
\* of the old one; when it lists none, "patches" has no entry for the new
\* version.
C30_PatchesCopied ==
  yml_written # Nothing =>
    IF most_recent_patch_sets # {}
    THEN /\ added_patch_sets # {}
         /\ \A new \in added_patch_sets :
              /\ ~new.value.alias
              /\ \A old \in most_recent_patch_sets : new.value.items = old.value.items
    ELSE added_patch_sets = {}

\* the calls that downloaded an archive
downloaded(c) == sha_call[c].pc \in {"client.get", "raised"} \/
                 (sha_call[c].pc = "returned" /\ ~sha_call[c].memoized
                  /\ source_url(sha_call[c].version) # None)

\* C31: whatever calls of source_sha256_digest were made on one resolver, the
\* digest returned for a version is the SHA-256 of the archive at
\* source_url(version); an archive is downloaded only by a call that found no
\* digest memoized for its version; and a call made after another call has
\* returned the digest of the same version downloads nothing and returns that
\* digest again.
C31_DigestOfArchive ==
  \A c \in 1..MaxDigestCalls :
    /\ sha_call[c].pc = "returned" /\ source_url(sha_call[c].version) # None =>
         sha_call[c].result = sha256(sha_archive[source_url(sha_call[c].version)])
    /\ downloaded(c) => ~sha_call[c].memoized
    /\ \A b \in sha_call[c].after :
         Eq(sha_call[b].version, sha_call[c].version) =>
           /\ ~downloaded(c)
           /\ sha_call[c].result = sha_call[b].result

\* the four matchers of a failed validation, by what each finds in the output
hook_matches(output) == \E i \in 1..Len(output) : HookErrorAt(output, i) # Nothing
error_in_matches(output) ==
  first_error(output) # 0 /\ \E q \in (first_error(output) + 1)..Len(output) : output[q] = EIN
invalid_configuration_matches(output) ==
  first_error(output) # 0 /\ \E q \in (first_error(output) + 1)..Len(output) : output[q] = INV
error_line_matches(output) == first_error(output) # 0

\* the text is part of the detail
contains_text(detail, text) == \E i \in 1..Len(detail) : detail[i] = text

\* C32: when the validation failed, the detail is the result of the first
\* matcher, in the order hook-validation errors, "Error in" frame, "Invalid
\* configuration" frame, first ERROR line, that matches the combined output,
\* and it is "no details" only when none of the four matches. So for an
\* output with the line ERROR: Invalid configuration: missing option 'x', in
\* which no matcher of higher priority matches, the detail contains Invalid
\* configuration: missing option 'x'.
C32_FirstMatcherWins ==
  conan_status # Nothing /\ ~conan_status[1].success =>
    LET output == conan_output
        detail == conan_status[1].error
    IN  /\ hook_matches(output) =>
             /\ detail[1] = "Hook validation failed:"
             /\ SubSeq(detail, 3, Len(detail)) = join(hook_errors(output, 1))
        /\ ~hook_matches(output) /\ error_in_matches(output) =>
             /\ detail[1] = EIN
             /\ detail = SubSeq(output, Len(output) - Len(detail) + 1, Len(output))
             /\ ~contains_text(Tail(detail), EIN)
        /\ ~hook_matches(output) /\ ~error_in_matches(output)
           /\ invalid_configuration_matches(output) =>
             /\ detail[1] = INV
             /\ detail = SubSeq(output, Len(output) - Len(detail) + 1, Len(output))
             /\ ~contains_text(Tail(detail), INV)
        /\ ~hook_matches(output) /\ ~error_in_matches(output)
           /\ ~invalid_configuration_matches(output) /\ error_line_matches(output) =>
             detail = SubSeq(output, SkipSpace(output, first_error(output) + 1), Len(output))
        /\ detail = <<"no details">> =>
             /\ ~hook_matches(output)
             /\ ~error_in_matches(output)
             /\ ~invalid_configuration_matches(output)
             /\ ~error_line_matches(output)

\* the validator failed with an ERROR line followed by the line ERROR:
\* Invalid configuration: missing option 'x', and the detail is that frame
C32_Witness ==
  /\ conan_status # Nothing
  /\ conan_code # 0
  /\ conan_output = <<ERR, TXT, NL, ERR, INV>>
  /\ conan_status[1].error = <<INV>>

\* C33: test_recipe reports success exactly when the validator exited with
\* code 0 and its combined output holds no "already patched" warning; in
\* every other case it reports success = false with an error detail that is
\* not empty.
C33_SuccessIffCleanExit ==
  conan_status # Nothing =>
    /\ conan_status[1].success <=> (conan_code = 0 /\ ~already_patched(conan_output))
    /\ ~conan_status[1].success =>
         /\ conan_status[1].error # None
         /\ conan_status[1].error # <<>>

\* the pipelines that have passed the gates and whose next step makes the
\* working tree
at_worktree_entry(r) ==
  \/ pc[r] = "remote_show_ref" /\ ~remote_branch_exists(r)
  \/ pc[r] = "local_show_ref" /\ ~branch_exists(r)
  \/ pc[r] = "branch_delete"

\* the pipelines between the creation of the working tree and its removal
in_worktree_stages(r) ==
  pc[r] \in {"worktree_add", "download", "lock_wait", "conan_create", "checkout", "commit",
             "owner_and_repo", "worktree_remove"}

\* C34: only the validation is gated by a shared lock or semaphore. A
\* pipeline that has passed the gates is never held back from making its
\* working tree, patching, committing and pushing by the pipelines of other
\* recipes that are in these stages: it can always take its next step.
C34_OnlyValidationIsGated ==
  \A r \in Recipes :
    at_worktree_entry(r) /\ (\E q \in Recipes \ {r} : in_worktree_stages(q)) =>
      update_sem > 0

\* C36: when the version table holds exactly one version, add_version places
\* the new version after it, at the end of the table, whether the new version
\* is higher or lower than the one that was there.
C36_SingleVersionAppends ==
  yml_written # Nothing /\ Len(config_before.versions) = 1 =>
    /\ Len(config_after.versions) = 2
    /\ PlaceOf(config_after.versions, conan_version_added) = 2
    /\ py_eq(config_after.versions[1].key, config_before.versions[1].key)

\* C37: updatable_to means strictly newer. No version is updatable to itself,
\* a.updatable_to(b) holds only if a < b in the Version ordering, and no two
\* versions are updatable to each other.
C37_StrictlyNewer ==
  ver_verdict # Nothing =>
    /\ ~updatable_to(ver_self, ver_self)
    /\ ver_verdict[1].updatable_to => ver_verdict[1].lt
    /\ ~(ver_verdict[1].updatable_to /\ updatable_to(ver_other, ver_self))

\* C38: the branch name is a function of the branch prefix, the recipe name
\* and the canonical upstream version, and two recipes with different names
\* never get the same branch name in one run, whatever their versions.
C38_DistinctBranchNames ==
  br_names # Nothing =>
    /\ br_recipes[1].name # br_recipes[2].name => br_names[1][1] # br_names[1][2]
    /\ br_recipes[1].name = br_recipes[2].name
         /\ br_recipes[1].new_upstream_version.fixed = br_recipes[2].new_upstream_version.fixed
         => br_names[1][1] = br_names[1][2]

\* the names were computed for recipe "a1" at version 2 and recipe "a" at
\* version 12, whose characters put end to end are the same
C38_Witness ==
  /\ br_names # Nothing
  /\ br_recipes[1].name = "a1" /\ br_recipes[1].new_upstream_version.fixed = "2"
  /\ br_recipes[2].name = "a" /\ br_recipes[2].new_upstream_version.original = "r12"
  /\ br_names[1] = <<"ccb-a1-2", "ccb-a-12">>

\* C35: the discovery of one resolver (release listing, clone) is run at most
\* once, also for calls of versions() made while it is under way, and a call
\* made after versions() has returned returns the list that was returned.
C35_DiscoveredOnce ==
  /\ up_runs.releases <= 1
  /\ up_runs.clones <= 1
  /\ \A c \in Callers :
       up_call[c].pc = "returned" => \A list \in up_call[c].after : up_call[c].result[1] = list

\* the recipes that the pull requests of the listing read by update task r
\* refer to, when its prs_opened_for returns: the cached list, or the list
\* its own fetch has accumulated
prs_read(r) ==
  IF pc[r] = "pull_requests" THEN prAcc[r]
  ELSE IF pull_requests # Nothing THEN pull_requests[1]
  ELSE {}

\* prs_opened_for returns to update task r in this step: the task leaves the
\* gates with a status other than a traceback, or goes on to the remote branch
prs_opened_for_returns(r) ==
  /\ pc[r] \in {"created", "pull_requests"}
  /\ ~deprecated[r]
  /\ updatable_to(RecipeVersion(r), new_upstream_version[r])
  /\ \/ pc'[r] = "remote_show_ref"
     \/ pc'[r] = "done" /\ result'[r] # Some(Failed)

\* what the stages after the gate leave behind for update task r
untouched_after_gates(r) ==
  /\ "git" \notin io[r]
  /\ r \notin dirOnDisk /\ tmpdir[r] = None /\ removeCode[r] = Nothing
  /\ r \notin cmakePatched /\ r \notin patched /\ test_status[r] = Nothing
  /\ r \notin branchCreated /\ r \notin committed /\ r \notin pushed

\* C39: when prs_opened_for finds an open pull request for the recipe at the
\* target version, the pipeline returns updated=false with details "PR exists"
\* in that step, and it has not tested the remote branch, made a working
\* tree, run the validator, committed or pushed, then or before.
C39_PrExistsGate ==
  /\ [][\A r \in Recipes :
          prs_opened_for_returns(r) /\ r \in prs_read(r) =>
            /\ pc'[r] = "done"
            /\ result'[r] = Some(Skipped("PR exists"))
            /\ untouched_after_gates(r)']_vars
  /\ [](\A r \in Recipes :
          pc[r] = "done" /\ result[r] = Some(Skipped("PR exists")) =>
            untouched_after_gates(r))

\* one pipeline ended with "PR exists", the listing shows a pull request for
\* its recipe only, and the pipeline of another recipe is running the validator
C39_Witness ==
  \E r, q \in Recipes :
    /\ pc[r] = "done" /\ result[r] = Some(Skipped("PR exists"))
    /\ pull_requests = Some({r})
    /\ pc[q] = "conan_create"


====
